---- MODULE Spec2Model ----
(***************************************************************************)
(* A model of parquetastic's metadata decoder: the Thrift compact protocol *)
(* reader (src/src/thrift.js) and the two decode entry points with their   *)
(* page-index range scheduler (src/src/parquetParser.js).                  *)
(*                                                                         *)
(* Bytes are integers 0..255.  A JavaScript Uint8Array that the reader     *)
(* walks is a sequence of bytes; the cursor `offset` is 0-based as in the  *)
(* source, so the byte under the cursor is buffer[offset + 1].             *)
(***************************************************************************)
EXTENDS Integers, Sequences, FiniteSets, TLC

(***************************************************************************)
(* Bounds of the model.                                                    *)
(***************************************************************************)
MaxRowGroups == 2
MaxCols == 2

(***************************************************************************)
(* Program constants.                                                      *)
(***************************************************************************)
\* parquetParser.js:216   const MAX_GAP = 64 * 1024
MAX_GAP == 65536

\* parquetParser.js:22    "PAR1"
PARQUET_MAGIC == <<80, 65, 82, 49>>

\* thrift.js:8-26   Thrift.Type
T_STOP == 0
T_BOOL == 2
T_BYTE == 3
T_I16 == 4
T_I32 == 5
T_I64 == 6
T_DOUBLE == 7
T_STRING == 8
T_LIST == 9
T_SET == 10
T_MAP == 11
T_STRUCT == 12

\* thrift.js:49-63  COMPACT_TYPES (the two that readFieldBegin names)
CT_BOOL_TRUE == 1
CT_BOOL_FALSE == 2

(***************************************************************************)
(* Small helpers.                                                          *)
(***************************************************************************)
Max(a, b) == IF a >= b THEN a ELSE b
Min(a, b) == IF a <= b THEN a ELSE b

Reverse(sq) == [i \in 1..Len(sq) |-> sq[Len(sq) + 1 - i]]

\* An optional thrift field: <<>> when the field is absent (null), <<v>> when set.
None == <<>>
Some(v) == <<v>>

\* JavaScript truthiness of an optional integer field: null and 0 are falsy.
Truthy(x) == x # None /\ x[1] # 0

(***************************************************************************)
(* TCompactProtocolReader (thrift.js).  A reader is a record               *)
(*   [buffer, offset, lastFieldId, boolValue]                              *)
(* and every operation returns [err, r, value]: err is TRUE when the       *)
(* operation throws, r is the reader as the operation leaves it.           *)
(***************************************************************************)
NewReader(buffer) ==
    [buffer |-> buffer, offset |-> 0, lastFieldId |-> <<0>>, boolValue |-> "null"]

compactTypeToThriftType(compactType) ==
    IF compactType = CT_BOOL_TRUE THEN T_BOOL ELSE compactType

\* readByte without its test of the cursor against the buffer's length.
readByteUnchecked(r) ==
    [err |-> FALSE, r |-> [r EXCEPT !.offset = @ + 1],
     value |-> IF r.offset < Len(r.buffer) THEN r.buffer[r.offset + 1] ELSE 0]

\* lines 98-103
readByte(r) ==
    IF r.offset >= Len(r.buffer)
    THEN [err |-> TRUE, r |-> r, value |-> 0]
    ELSE [err |-> FALSE, r |-> [r EXCEPT !.offset = @ + 1],
          value |-> r.buffer[r.offset + 1]]

\* The do-while of readVarint: result |= (byte & 0x7f) << shift; shift += 7.
\* `mult` is 2^shift.
RECURSIVE varintLoop(_, _, _)
varintLoop(r, result, mult) ==
    IF r.offset >= Len(r.buffer)
    THEN [err |-> TRUE, r |-> r, value |-> result]
    ELSE LET byte == r.buffer[r.offset + 1]
             r1 == [r EXCEPT !.offset = @ + 1]
             res == result + (byte % 128) * mult
         IN IF byte >= 128
            THEN varintLoop(r1, res, mult * 128)
            ELSE [err |-> FALSE, r |-> r1, value |-> res]

\* readVarint that takes the first byte's seven bits and never looks at its high bit.
readVarintOneByte(r) == [readByte(r) EXCEPT !.value = @ % 128]

readVarint(r) == varintLoop(r, 0, 1)

\* (n >> 1) ^ (-(n & 1)): xor with -1 is bitwise not, ~x = -x - 1.
\* ZigZag without the xor: n >> 1.
ZigZagShiftOnly(n) == n \div 2

ZigZag(n) == IF n % 2 = 1 THEN -(n \div 2) - 1 ELSE n \div 2

WithZigZag(v) == [v EXCEPT !.value = ZigZag(v.value)]

readZigZag(r) == WithZigZag(readVarint(r))

readI16(r) == readZigZag(r)

readI32(r) == readZigZag(r)

readI64(r) == readZigZag(r)

readDouble(r) ==
    IF r.offset + 8 > Len(r.buffer)
    THEN [err |-> TRUE, r |-> r, value |-> <<>>]
    ELSE [err |-> FALSE, r |-> [r EXCEPT !.offset = @ + 8],
          value |-> SubSeq(r.buffer, r.offset + 1, r.offset + 8)]

\* BinaryOfLength refusing a binary that ends with the buffer.
BinaryOfLengthStrict(v) ==
    IF v.err THEN [err |-> TRUE, r |-> v.r, value |-> <<>>]
    ELSE IF v.value < 0 THEN [err |-> TRUE, r |-> v.r, value |-> <<>>]
    ELSE IF v.r.offset + v.value >= Len(v.r.buffer)
         THEN [err |-> TRUE, r |-> v.r, value |-> <<>>]
    ELSE [err |-> FALSE, r |-> [v.r EXCEPT !.offset = @ + v.value],
          value |-> SubSeq(v.r.buffer, v.r.offset + 1, v.r.offset + v.value)]

\* readBinary once the length varint v has been read
BinaryOfLength(v) ==
    IF v.err THEN [err |-> TRUE, r |-> v.r, value |-> <<>>]
    ELSE IF v.value < 0 THEN [err |-> TRUE, r |-> v.r, value |-> <<>>]
    ELSE IF v.r.offset + v.value > Len(v.r.buffer)
         THEN [err |-> TRUE, r |-> v.r, value |-> <<>>]
    ELSE [err |-> FALSE, r |-> [v.r EXCEPT !.offset = @ + v.value],
          value |-> SubSeq(v.r.buffer, v.r.offset + 1, v.r.offset + v.value)]

readBinary(r) == BinaryOfLength(readVarint(r))

\* readBool once the byte b has been read
BoolOfByte(b) == [err |-> b.err, r |-> b.r, value |-> (b.value = 1)]

\* readBool that ignores the pending boolean and reads a byte.
readBoolFromByte(r) == BoolOfByte(readByte(r))

readBool(r) ==
    IF r.boolValue # "null"
    THEN [err |-> FALSE, r |-> [r EXCEPT !.boolValue = "null"],
          value |-> (r.boolValue = "true")]
    ELSE BoolOfByte(readByte(r))

readStructBegin(r) == [r EXCEPT !.lastFieldId = Append(@, 0)]

\* readStructEnd without the pop.
readStructEndKeepsId(r) == r

readStructEnd(r) ==
    [r EXCEPT !.lastFieldId = SubSeq(@, 1, Len(@) - 1)]

\* readFieldBegin, lines 228-242: the field id is stored and an inline
\* boolean remembered
FieldResult(r, compactType, fieldId) ==
    [err |-> FALSE,
     r |-> [r EXCEPT !.lastFieldId[Len(r.lastFieldId)] = fieldId,
                     !.boolValue = IF compactType = CT_BOOL_TRUE THEN "true"
                                   ELSE IF compactType = CT_BOOL_FALSE THEN "false"
                                   ELSE @],
     ftype |-> compactTypeToThriftType(compactType),
     fid |-> fieldId]

\* line 222: the long form, once the zig-zag varint z has been read
FieldLongForm(compactType, z) ==
    IF z.err THEN [err |-> TRUE, r |-> z.r, ftype |-> T_STOP, fid |-> 0]
    ELSE FieldResult(z.r, compactType, z.value)

\* FieldOfByte with the short form's delta taken as the field id itself.
FieldOfByteDeltaAsId(b) ==
    IF b.err THEN [err |-> TRUE, r |-> b.r, ftype |-> T_STOP, fid |-> 0]
    ELSE IF b.value = 0 THEN [err |-> FALSE, r |-> b.r, ftype |-> T_STOP, fid |-> 0]
    ELSE IF (b.value \div 16) % 16 = 0
         THEN FieldLongForm(b.value % 16, readZigZag(b.r))
    ELSE FieldResult(b.r, b.value % 16, (b.value \div 16) % 16)

\* lines 212-226, once the header byte b has been read
FieldOfByte(b) ==
    IF b.err THEN [err |-> TRUE, r |-> b.r, ftype |-> T_STOP, fid |-> 0]
    ELSE IF b.value = 0 THEN [err |-> FALSE, r |-> b.r, ftype |-> T_STOP, fid |-> 0]
    ELSE IF (b.value \div 16) % 16 = 0
         THEN FieldLongForm(b.value % 16, readZigZag(b.r))
    ELSE FieldResult(b.r, b.value % 16,
                     b.r.lastFieldId[Len(b.r.lastFieldId)] + ((b.value \div 16) % 16))

\* Returns [err, r, ftype, fid].
readFieldBegin(r) == FieldOfByte(readByte(r))

\* line 256: a large list, once the size varint v has been read
ListOfVarint(elemType, v) ==
    [err |-> v.err, r |-> v.r, etype |-> compactTypeToThriftType(elemType),
     size |-> v.value]

\* ListOfByte taking the high nibble as the size even when it is 15.
ListOfByteNibbleOnly(b) ==
    IF b.err THEN [err |-> TRUE, r |-> b.r, etype |-> T_STOP, size |-> 0]
    ELSE [err |-> FALSE, r |-> b.r,
          etype |-> compactTypeToThriftType(b.value % 16),
          size |-> (b.value \div 16) % 16]

\* lines 251-262, once the header byte b has been read
ListOfByte(b) ==
    IF b.err THEN [err |-> TRUE, r |-> b.r, etype |-> T_STOP, size |-> 0]
    ELSE IF (b.value \div 16) % 16 = 15
         THEN ListOfVarint(b.value % 16, readVarint(b.r))
    ELSE [err |-> FALSE, r |-> b.r,
          etype |-> compactTypeToThriftType(b.value % 16),
          size |-> (b.value \div 16) % 16]

\* Returns [err, r, etype, size].
readListBegin(r) == ListOfByte(readByte(r))

readSetBegin(r) == readListBegin(r)

\* MapOfTypes with the two nibbles exchanged.
MapOfTypesSwapped(size, t) ==
    [err |-> t.err, r |-> t.r,
     ktype |-> compactTypeToThriftType(t.value % 16),
     vtype |-> compactTypeToThriftType((t.value \div 16) % 16),
     size |-> size]

\* lines 274-279, once the types byte t has been read
MapOfTypes(size, t) ==
    [err |-> t.err, r |-> t.r,
     ktype |-> compactTypeToThriftType((t.value \div 16) % 16),
     vtype |-> compactTypeToThriftType(t.value % 16),
     size |-> size]

\* lines 271-274, once the size varint v has been read
MapOfSize(v) ==
    IF v.err THEN [err |-> TRUE, r |-> v.r, ktype |-> T_STOP, vtype |-> T_STOP, size |-> 0]
    ELSE IF v.value = 0
         THEN [err |-> FALSE, r |-> v.r, ktype |-> T_STOP, vtype |-> T_STOP, size |-> 0]
    ELSE MapOfTypes(v.value, readByte(v.r))

\* Returns [err, r, ktype, vtype, size].
readMapBegin(r) == MapOfSize(readVarint(r))

\* skip(type) and its loops.  Each returns [err, r].
Outcome(v) == [err |-> v.err, r |-> v.r]

RECURSIVE skip(_, _)
RECURSIVE skipFields(_)
RECURSIVE skipElems(_, _, _)
RECURSIVE skipPairs(_, _, _, _)

\* The struct left without readStructEnd: its field-id stays on the stack.
StructLeftOpen(s) == s

\* line 334, after the field loop
StructEnd(s) == IF s.err THEN s ELSE [err |-> FALSE, r |-> readStructEnd(s.r)]

\* lines 339-341, after readListBegin
ElemsOfList(l) ==
    IF l.err THEN [err |-> TRUE, r |-> l.r] ELSE skipElems(l.r, l.etype, l.size)

\* lines 346-349, after readMapBegin
PairsOfMap(m) ==
    IF m.err THEN [err |-> TRUE, r |-> m.r] ELSE skipPairs(m.r, m.ktype, m.vtype, m.size)

skip(r, type) ==
    CASE type = T_STOP -> [err |-> FALSE, r |-> r]
      [] type \in {CT_BOOL_TRUE, T_BOOL} ->
            IF r.boolValue = "null"
            THEN Outcome(readByte(r))
            ELSE [err |-> FALSE, r |-> [r EXCEPT !.boolValue = "null"]]
      [] type = T_BYTE -> Outcome(readByte(r))
      [] type = T_I16 -> Outcome(readI16(r))
      [] type = T_I32 -> Outcome(readI32(r))
      [] type = T_I64 -> Outcome(readI64(r))
      [] type = T_DOUBLE -> Outcome(readDouble(r))
      [] type = T_STRING -> Outcome(readBinary(r))
      [] type = T_STRUCT -> StructEnd(skipFields(readStructBegin(r)))
      [] type \in {T_LIST, T_SET} -> ElemsOfList(readListBegin(r))
      [] type = T_MAP -> PairsOfMap(readMapBegin(r))
      [] OTHER -> [err |-> TRUE, r |-> r]

\* lines 331-332, after skip
NextField(s) == IF s.err THEN s ELSE skipFields(s.r)

\* lines 329-331, after readFieldBegin
SkipField(field) ==
    IF field.err THEN [err |-> TRUE, r |-> field.r]
    ELSE IF field.ftype = T_STOP THEN [err |-> FALSE, r |-> field.r]
    ELSE NextField(skip(field.r, field.ftype))

skipFields(r) == SkipField(readFieldBegin(r))

\* An iteration that consumed nothing and changed nothing leaves the reader
\* as it is however often it is repeated: the remaining turns of the loop
\* are not unrolled.
NextElem(r, s, etype, n) ==
    IF s.err THEN s
    ELSE IF s.r = r THEN s
    ELSE skipElems(s.r, etype, n - 1)

skipElems(r, etype, n) ==
    IF n <= 0 THEN [err |-> FALSE, r |-> r]
    ELSE NextElem(r, skip(r, etype), etype, n)

NextPair(r, v, ktype, vtype, n) ==
    IF v.err THEN v
    ELSE IF v.r = r THEN v
    ELSE skipPairs(v.r, ktype, vtype, n - 1)

ValueOfPair(r, k, ktype, vtype, n) ==
    IF k.err THEN k ELSE NextPair(r, skip(k.r, vtype), ktype, vtype, n)

skipPairs(r, ktype, vtype, n) ==
    IF n <= 0 THEN [err |-> FALSE, r |-> r]
    ELSE ValueOfPair(r, skip(r, ktype), ktype, vtype, n)

(***************************************************************************)
(* Index structures.  parquet_types.js (the generated ColumnIndex,         *)
(* OffsetIndex and FileMetaData readers) is not among the sources, so the  *)
(* struct read loop follows spec section 4.3: open a struct, read field    *)
(* headers until Stop, consume each field by its type tag.  The decoded    *)
(* object is the sequence of [fid, ftype] of the fields read so far.       *)
(***************************************************************************)
RECURSIVE readIndexFields(_, _)

IndexFieldDone(s, field, acc) ==
    IF s.err THEN [err |-> TRUE, r |-> s.r, fields |-> acc]
    ELSE readIndexFields(s.r, Append(acc, [fid |-> field.fid, ftype |-> field.ftype]))

IndexField(field, acc) ==
    IF field.err THEN [err |-> TRUE, r |-> field.r, fields |-> acc]
    ELSE IF field.ftype = T_STOP THEN [err |-> FALSE, r |-> field.r, fields |-> acc]
    ELSE IndexFieldDone(skip(field.r, field.ftype), field, acc)

readIndexFields(r, acc) == IndexField(readFieldBegin(r), acc)

\* ColumnIndex / OffsetIndex [Symbol.for('read')](reader)
IndexRead(r) == readIndexFields(readStructBegin(r), <<>>)

\* A slot of pageIndexes: null, a decoded object, or an object whose read threw
\* part-way ("partial").
NullSlot == [tag |-> "null", fields |-> <<>>]
Decoded(fields) == [tag |-> "object", fields |-> fields]
Partial(fields) == [tag |-> "partial", fields |-> fields]

(***************************************************************************)
(* Files.  A file is [size, data, meta, footerOK]: data maps the positions *)
(* that hold a non-zero byte to that byte (every other position holds 0),  *)
(* meta is the FileMetaData its footer range decodes to (row groups, each  *)
(* a sequence of column chunks) and footerOK says whether that decode      *)
(* succeeds.  Sequences are 1-based: row group 1 is rgIdx 0 of the source. *)
(***************************************************************************)
ByteAt(f, p) == IF p \in DOMAIN f.data THEN f.data[p] ELSE 0

\* A Uint8Array obtained from the file is a view [lo, hi) of file positions.
ViewLen(v) == v.hi - v.lo

Materialize(f, v) == [i \in 1..ViewLen(v) |-> ByteAt(f, v.lo + i - 1)]

\* The clamping of Blob.slice and Uint8Array.prototype.slice: a negative index
\* counts from the end, everything is clamped to [0, len].
RelIndex(i, len) == IF i < 0 THEN Max(len + i, 0) ELSE Min(i, len)

\* file.slice(start, end) followed by arrayBuffer()
BlobSlice(f, start, end) ==
    LET lo == RelIndex(start, f.size)
        hi == RelIndex(end, f.size)
    IN [lo |-> lo, hi |-> Max(hi, lo)]

\* bytes.slice(start, end) on a view
ArraySlice(v, start, end) ==
    LET lo == RelIndex(start, ViewLen(v))
        hi == RelIndex(end, ViewLen(v))
    IN [lo |-> v.lo + lo, hi |-> v.lo + Max(hi, lo)]

bytesEqual(a, b) ==
    /\ Len(a) = Len(b)
    /\ \A i \in 1..Len(a) : a[i] = b[i]

\* DataView.getUint32(0, true) over the first four bytes of b
getUint32LE(b) == b[1] + 256 * b[2] + 65536 * b[3] + 16777216 * b[4]

(***************************************************************************)
(* parsePageIndexesStreaming, lines 181-251: the plan.                     *)
(***************************************************************************)
Request(rgIdx, colIdx, type, offset, length) ==
    [rgIdx |-> rgIdx, colIdx |-> colIdx, type |-> type,
     offset |-> offset, length |-> length]

\* lines 188-206: the requests of one column chunk
ChunkRequests(rgIdx, colIdx, columnChunk) ==
    (IF Truthy(columnChunk.column_index_offset) /\ Truthy(columnChunk.column_index_length)
     THEN <<Request(rgIdx, colIdx, "columnIndex",
                    columnChunk.column_index_offset[1],
                    columnChunk.column_index_length[1])>>
     ELSE <<>>)
    \o
    (IF Truthy(columnChunk.offset_index_offset) /\ Truthy(columnChunk.offset_index_length)
     THEN <<Request(rgIdx, colIdx, "offsetIndex",
                    columnChunk.offset_index_offset[1],
                    columnChunk.offset_index_length[1])>>
     ELSE <<>>)

RECURSIVE ColumnRequests(_, _, _)
ColumnRequests(rgIdx, columns, colIdx) ==
    IF colIdx > Len(columns) THEN <<>>
    ELSE ChunkRequests(rgIdx, colIdx, columns[colIdx])
         \o ColumnRequests(rgIdx, columns, colIdx + 1)

RECURSIVE CollectRequests(_, _)
CollectRequests(row_groups, rgIdx) ==
    IF rgIdx > Len(row_groups) THEN <<>>
    ELSE ColumnRequests(rgIdx, row_groups[rgIdx], 1)
         \o CollectRequests(row_groups, rgIdx + 1)

\* line 211: readRequests.sort((a, b) => a.offset - b.offset), a stable sort
RECURSIVE InsertByOffset(_, _)
InsertByOffset(sorted, req) ==
    IF sorted = <<>> THEN <<req>>
    ELSE IF Head(sorted).offset <= req.offset
         THEN <<Head(sorted)>> \o InsertByOffset(Tail(sorted), req)
         ELSE <<req>> \o sorted

RECURSIVE SortByOffset(_)
SortByOffset(reqs) ==
    IF reqs = <<>> THEN <<>>
    ELSE InsertByOffset(SortByOffset(SubSeq(reqs, 1, Len(reqs) - 1)), reqs[Len(reqs)])

\* lines 218-238: one turn of the batching loop.  A plan is
\* [batches, currentBatch]; currentBatch is <<>> (null) or <<batch>>.
NewBatch(req) ==
    [start |-> req.offset, end |-> req.offset + req.length, requests |-> <<req>>]

\* BatchStep with the gap test made strict.
BatchStepStrictGap(plan, req, gap) ==
    IF plan.currentBatch = <<>>
    THEN [plan EXCEPT !.currentBatch = <<NewBatch(req)>>]
    ELSE IF req.offset < plan.currentBatch[1].end + gap
         THEN [plan EXCEPT !.currentBatch =
                  <<[plan.currentBatch[1] EXCEPT
                        !.end = Max(@, req.offset + req.length),
                        !.requests = Append(@, req)]>>]
         ELSE [batches |-> Append(plan.batches, plan.currentBatch[1]),
               currentBatch |-> <<NewBatch(req)>>]

BatchStep(plan, req, gap) ==
    IF plan.currentBatch = <<>>
    THEN [plan EXCEPT !.currentBatch = <<NewBatch(req)>>]
    ELSE LET cur == plan.currentBatch[1]
         IN IF req.offset <= cur.end + gap
            THEN [plan EXCEPT !.currentBatch =
                     <<[cur EXCEPT !.end = Max(cur.end, req.offset + req.length),
                                   !.requests = Append(cur.requests, req)]>>]
            ELSE [batches |-> Append(plan.batches, cur),
                  currentBatch |-> <<NewBatch(req)>>]

\* lines 239-241
BatchFinish(plan) == plan.batches \o plan.currentBatch

RECURSIVE BatchLoop(_, _, _)
BatchLoop(plan, reqs, gap) ==
    IF reqs = <<>> THEN plan
    ELSE BatchLoop(BatchStep(plan, Head(reqs), gap), Tail(reqs), gap)

BuildBatches(sortedReqs, gap) ==
    BatchFinish(BatchLoop([batches |-> <<>>, currentBatch |-> <<>>], sortedReqs, gap))

\* lines 243-251: one { columnIndex: null, offsetIndex: null } per column chunk
InitIndexes(row_groups) ==
    [rg \in 1..Len(row_groups) |->
        [col \in 1..Len(row_groups[rg]) |->
            [columnIndex |-> NullSlot, offsetIndex |-> NullSlot]]]

(***************************************************************************)
(* parsePageIndexesStreaming, lines 257-275: the requests of one batch.    *)
(* An accumulator is [indexes, decodes]; decodes logs every index decode:  *)
(* the slot, the bytes handed to the reader and whether the read threw.    *)
(***************************************************************************)
\* SetSlot that ignores the request's kind.
SetSlotAnyKind(indexes, req, v) ==
    [indexes EXCEPT ![req.rgIdx][req.colIdx].columnIndex = v]

SetSlot(indexes, req, v) ==
    IF req.type = "columnIndex"
    THEN [indexes EXCEPT ![req.rgIdx][req.colIdx].columnIndex = v]
    ELSE [indexes EXCEPT ![req.rgIdx][req.colIdx].offsetIndex = v]

DecodeEvent(req, bytes, err) ==
    [rgIdx |-> req.rgIdx, colIdx |-> req.colIdx, type |-> req.type,
     bytes |-> bytes, err |-> err]

\* RequestBytes with the file offset used as the offset into the batch buffer.
RequestBytesFileOffset(f, batch, batchBytes, req) ==
    Materialize(f, ArraySlice(batchBytes, req.offset, req.offset + req.length))

\* lines 258-259
RequestBytes(f, batch, batchBytes, req) ==
    LET localOffset == req.offset - batch.start
    IN Materialize(f, ArraySlice(batchBytes, localOffset, localOffset + req.length))

\* StoreStreaming that assigns the slot before the read, as the legacy loop does.
StoreBeforeRead(indexes, req, d) ==
    SetSlot(indexes, req, IF d.err THEN Partial(d.fields) ELSE Decoded(d.fields))

\* lines 261-274: the slot is assigned after the read returned
StoreStreaming(indexes, req, d) ==
    IF d.err THEN indexes ELSE SetSlot(indexes, req, Decoded(d.fields))

\* lines 261-274 for the bytes of one request, d the outcome of the read
RequestDecoded(acc, req, indexBytes, d) ==
    [indexes |-> StoreStreaming(acc.indexes, req, d),
     decodes |-> Append(acc.decodes, DecodeEvent(req, indexBytes, d.err))]

DecodeRequest(acc, req, indexBytes) ==
    RequestDecoded(acc, req, indexBytes, IndexRead(NewReader(indexBytes)))

ProcessRequest(f, acc, batch, batchBytes, req) ==
    DecodeRequest(acc, req, RequestBytes(f, batch, batchBytes, req))

RECURSIVE ProcessRequests(_, _, _, _, _)
ProcessRequests(f, acc, batch, batchBytes, reqs) ==
    IF reqs = <<>> THEN acc
    ELSE ProcessRequests(f, ProcessRequest(f, acc, batch, batchBytes, Head(reqs)),
                         batch, batchBytes, Tail(reqs))

ProcessBatch(f, acc, batch, batchBytes) ==
    ProcessRequests(f, acc, batch, batchBytes, batch.requests)

(***************************************************************************)
(* parsePageIndexes (legacy), lines 284-330.                               *)
(***************************************************************************)
\* lines 296-307 and 310-321: the slot is assigned a new object before the
\* read, so a read that throws leaves the partly filled object in the slot
StoreLegacy(indexes, req, d) ==
    SetSlot(indexes, req, IF d.err THEN Partial(d.fields) ELSE Decoded(d.fields))

LegacyDecoded(acc, req, indexBytes, d) ==
    [indexes |-> StoreLegacy(acc.indexes, req, d),
     decodes |-> Append(acc.decodes, DecodeEvent(req, indexBytes, d.err))]

LegacyDecode(acc, req, indexBytes) ==
    LegacyDecoded(acc, req, indexBytes, IndexRead(NewReader(indexBytes)))

LegacyRequest(f, acc, bytes, req) ==
    LegacyDecode(acc, req,
                 Materialize(f, ArraySlice(bytes, req.offset, req.offset + req.length)))

RECURSIVE LegacyRequests(_, _, _, _)
LegacyRequests(f, acc, bytes, reqs) ==
    IF reqs = <<>> THEN acc
    ELSE LegacyRequests(f, LegacyRequest(f, acc, bytes, Head(reqs)), bytes, Tail(reqs))

\* The legacy loops visit the column chunks in file-metadata order and apply
\* the same presence test as the streaming collection.
parsePageIndexes(f, bytes, row_groups) ==
    LegacyRequests(f, [indexes |-> InitIndexes(row_groups), decodes |-> <<>>],
                   bytes, CollectRequests(row_groups, 1))

(***************************************************************************)
(* The files the model decodes.  Index structures are laid out behind the  *)
(* header magic, one per (row group, column, kind); in the "far" layout    *)
(* every row group after the first keeps its indexes more than MAX_GAP     *)
(* bytes behind the previous one's.  One slot of the footer may carry a    *)
(* defect: a length that cuts the structure short, a missing, zero,        *)
(* negative or out-of-file offset, a zero or negative length.              *)
(***************************************************************************)
Kinds == <<"columnIndex", "offsetIndex">>

SlotId(rg, col, k) == ((rg - 1) * MaxCols + (col - 1)) * 2 + k

\* A ColumnIndex of one i32 field and an OffsetIndex of one list field, each
\* with the slot's id as its (long form, zig-zag) field id.
IndexBytes(k, id) ==
    IF k = 1 THEN <<T_I32, 2 * id, 2, 0>>
    ELSE <<T_LIST, 2 * id, 16 + T_I32, 2, 0>>

SlotStride == Len(IndexBytes(2, 1)) + 1

FarStride == MAX_GAP + 16 * SlotStride * MaxCols

RowGroupBase(layout, rg) ==
    Len(PARQUET_MAGIC)
    + (rg - 1) * (IF layout = "far" THEN FarStride ELSE 2 * MaxCols * SlotStride)

SlotPos(layout, rg, col, k) ==
    RowGroupBase(layout, rg) + ((col - 1) * 2 + (k - 1)) * SlotStride

FooterLen(layout) == IF layout = "far" THEN 300 ELSE 6

FileSizeOf(layout, n) ==
    RowGroupBase(layout, Max(n, 1)) + 2 * MaxCols * SlotStride + FooterLen(layout) + 8

Place(at, bytes) == [p \in at..(at + Len(bytes) - 1) |-> bytes[p - at + 1]]

RECURSIVE PlaceAll(_)
PlaceAll(segs) ==
    IF segs = {} THEN <<>>
    ELSE LET sg == CHOOSE x \in segs : TRUE
         IN Place(sg.at, sg.bytes) @@ PlaceAll(segs \ {sg})

LE32(n) == <<n % 256, (n \div 256) % 256, (n \div 65536) % 256, n \div 16777216>>

Defects == {"trunc", "absent", "zerooff", "zerolen", "eof", "neg", "neglen"}

\* The footer's offset and length of slot (rg, col, k).
SlotOffset(layout, n, rg, col, k, d) ==
    IF d.kind # "none" /\ d.rg = rg /\ d.col = col /\ d.k = k
    THEN CASE d.kind = "absent" -> None
           [] d.kind = "zerooff" -> Some(0)
           [] d.kind = "eof" -> Some(FileSizeOf(layout, n) + 10)
           [] d.kind = "neg" -> Some(-8)
           [] OTHER -> Some(SlotPos(layout, rg, col, k))
    ELSE Some(SlotPos(layout, rg, col, k))

SlotLength(rg, col, k, d) ==
    LET full == Len(IndexBytes(k, SlotId(rg, col, k)))
    IN IF d.kind # "none" /\ d.rg = rg /\ d.col = col /\ d.k = k
       THEN CASE d.kind = "absent" -> None
              [] d.kind = "zerolen" -> Some(0)
              [] d.kind = "neglen" -> Some(-2)
              [] d.kind = "trunc" -> Some(full - 2)
              [] OTHER -> Some(full)
       ELSE Some(full)

MetaOf(layout, n, m, d) ==
    [rg \in 1..n |->
        [col \in 1..m |->
            [column_index_offset |-> SlotOffset(layout, n, rg, col, 1, d),
             column_index_length |-> SlotLength(rg, col, 1, d),
             offset_index_offset |-> SlotOffset(layout, n, rg, col, 2, d),
             offset_index_length |-> SlotLength(rg, col, 2, d)]]]

NoDefect == [kind |-> "none", rg |-> 0, col |-> 0, k |-> 0]

\* A well-formed file of n row groups of m columns.
LaidOutFile(layout, n, m, d) ==
    LET size == FileSizeOf(layout, n)
        segs == {[at |-> SlotPos(layout, rg, col, k),
                  bytes |-> IndexBytes(k, SlotId(rg, col, k))] :
                     <<rg, col, k>> \in (1..n) \X (1..m) \X (1..2)}
    IN [size |-> size,
        data |-> Place(0, PARQUET_MAGIC)
                 @@ Place(size - 8, LE32(FooterLen(layout)) \o PARQUET_MAGIC)
                 @@ PlaceAll(segs),
        meta |-> MetaOf(layout, n, m, d),
        footerOK |-> TRUE,
        layout |-> layout, defect |-> d]

LaidOutFiles ==
    {LaidOutFile("near", 0, 1, NoDefect)}
    \cup {LaidOutFile(layout, n, m, NoDefect) :
            <<layout, n, m>> \in {"near", "far"} \X (1..MaxRowGroups) \X (1..MaxCols)}
    \cup UNION {{LaidOutFile(layout, n, m, [kind |-> dk, rg |-> rg, col |-> col, k |-> k]) :
                    <<rg, col, k, dk>> \in (1..n) \X (1..m) \X (1..2) \X Defects} :
                <<layout, n, m>> \in {"near", "far"} \X (1..MaxRowGroups) \X (1..MaxCols)}

\* Envelopes: small files whose magic markers and length field vary, with an
\* empty or an undecodable footer.
BadMagic == <<80, 65, 82, 50>>

EnvelopeFile(size, head, len4, tail, footerOK) ==
    [size |-> size,
     data |-> Place(0, head) @@ Place(size - 8, len4 \o tail),
     meta |-> <<>>,
     footerOK |-> footerOK,
     layout |-> "near", defect |-> NoDefect]

EnvelopeSizes == {11, 12, 13, 20, 270}

EnvelopeLens == {<<0, 0, 0, 0>>, <<4, 0, 0, 0>>, <<5, 0, 0, 0>>, <<12, 0, 0, 0>>,
                 <<13, 0, 0, 0>>, <<6, 1, 0, 0>>, <<7, 1, 0, 0>>, <<0, 0, 1, 0>>}

EnvelopeFiles ==
    {EnvelopeFile(size, head, len4, tail, ok) :
        <<size, head, len4, tail, ok>> \in
            EnvelopeSizes \X {PARQUET_MAGIC, BadMagic} \X EnvelopeLens
            \X {PARQUET_MAGIC, BadMagic} \X BOOLEAN}

(***************************************************************************)
(* The statistics formatter (statsFormatter.js).  A JavaScript string is a *)
(* sequence of one-character strings.  A rendering is a record             *)
(*   [threw, form, text, int]:                                             *)
(* threw says the call ended in an exception; form names the return        *)
(* statement that produced the string; text is the string itself for the   *)
(* forms spelled out below (the sentinel, booleans, decimals, hex, UUID)    *)
(* and empty for the ones left abstract (dates, times, floats, locale       *)
(* numbers, decoded text); int is the integer the bytes were decoded to.    *)
(***************************************************************************)
DigitChars == <<"0", "1", "2", "3", "4", "5", "6", "7", "8", "9">>

HexChars == DigitChars \o <<"a", "b", "c", "d", "e", "f">>

NotAvailable == <<"N", "/", "A">>

Ellipsis == <<".", ".", ".">>

Rendered(form, text, int) == [threw |-> FALSE, form |-> form, text |-> text, int |-> int]

Raised == [threw |-> TRUE, form |-> "exception", text |-> <<>>, int |-> 0]

\* Number.prototype.toString / BigInt.prototype.toString of n >= 0
RECURSIVE digitsOf(_)
digitsOf(n) ==
    IF n < 10 THEN <<DigitChars[n + 1]>>
    ELSE Append(digitsOf(n \div 10), DigitChars[(n % 10) + 1])

toString(n) == IF n < 0 THEN <<"-">> \o digitsOf(0 - n) ELSE digitsOf(n)

\* String.prototype.slice: a negative index counts from the end, both are clamped
sliceIndex(len, i) == IF i < 0 THEN Max(len + i, 0) ELSE Min(i, len)

slice(str, start, end) ==
    SubSeq(str, sliceIndex(Len(str), start) + 1, sliceIndex(Len(str), end))

sliceFrom(str, start) == slice(str, start, Len(str))

\* The padding put behind the string instead of in front of it.
padEnd(str, n, ch) ==
    IF Len(str) >= n THEN str ELSE str \o [i \in 1..(n - Len(str)) |-> ch]

\* String.prototype.padStart, line 245
padStart(str, n, ch) ==
    IF Len(str) >= n THEN str ELSE [i \in 1..(n - Len(str)) |-> ch] \o str

\* line 246: padded.slice(0, -scale) || '0'
intPartOf(padded, scale) ==
    IF slice(padded, 0, 0 - scale) = <<>> THEN <<"0">> ELSE slice(padded, 0, 0 - scale)

\* lines 241-249, on the digits str of the integer
scaleDigits(str, isNegative, scale) ==
    (IF isNegative THEN <<"-">> ELSE <<>>)
    \o intPartOf(padStart(IF isNegative THEN sliceFrom(str, 1) ELSE str, scale + 1, "0"), scale)
    \o <<".">>
    \o sliceFrom(padStart(IF isNegative THEN sliceFrom(str, 1) ELSE str, scale + 1, "0"),
                 0 - scale)

\* lines 235-253
formatDecimal(intValue, scale) ==
    IF scale = 0 THEN toString(intValue)
    ELSE scaleDigits(toString(intValue), Head(toString(intValue)) = "-", scale)

\* b.toString(16).padStart(2, '0')
hexByte(b) == <<HexChars[(b \div 16) + 1], HexChars[(b % 16) + 1]>>

\* Array.prototype.join
RECURSIVE join(_, _)
join(parts, sep) ==
    IF parts = <<>> THEN <<>>
    ELSE IF Len(parts) = 1 THEN parts[1]
    ELSE parts[1] \o sep \o join(Tail(parts), sep)

hexOf(bytes, sep) == join([i \in 1..Len(bytes) |-> hexByte(bytes[i])], sep)

\* lines 465-468 and 474-478: at most sixteen bytes, an ellipsis behind a longer value
hexDump(value) ==
    hexOf(SubSeq(value, 1, Min(16, Len(value))), <<" ">>)
    \o (IF Len(value) > 16 THEN Ellipsis ELSE <<>>)

\* lines 258-275
formatUUID(bytes) ==
    IF Len(bytes) # 16 THEN hexOf(bytes, <<>>)
    ELSE slice(hexOf(bytes, <<>>), 0, 8) \o <<"-">> \o slice(hexOf(bytes, <<>>), 8, 12)
         \o <<"-">> \o slice(hexOf(bytes, <<>>), 12, 16) \o <<"-">>
         \o slice(hexOf(bytes, <<>>), 16, 20) \o <<"-">> \o sliceFrom(hexOf(bytes, <<>>), 20)

\* A byte as a signed 8-bit integer.
signedByte(b) == IF b >= 128 THEN b - 256 ELSE b

\* DataView little-endian signed reads (getInt32, getBigInt64) of the first
\* width bytes; a view shorter than width makes them throw a RangeError.
RECURSIVE littleEndian(_, _)
littleEndian(bytes, width) ==
    IF width = 1 THEN signedByte(bytes[1])
    ELSE bytes[1] + 256 * littleEndian(Tail(bytes), width - 1)

getSigned(value, width) ==
    IF Len(value) < width THEN [threw |-> TRUE, v |-> 0]
    ELSE [threw |-> FALSE, v |-> littleEndian(value, width)]

\* lines 328, 348, 380, 398: value.length < width
tooShort(value, width) == Len(value) < width

\* lines 327-344
formatINT32(value, logicalInfo) ==
    IF tooShort(value, 4) THEN Rendered("N/A", NotAvailable, 0)
    ELSE IF getSigned(value, 4).threw THEN Raised
    ELSE IF logicalInfo.type = "DATE" THEN Rendered("date", <<>>, getSigned(value, 4).v)
    ELSE IF logicalInfo.type = "TIME" THEN Rendered("time", <<>>, getSigned(value, 4).v)
    ELSE IF logicalInfo.type = "DECIMAL"
         THEN Rendered("decimal",
                       formatDecimal(getSigned(value, 4).v,
                                     IF Truthy(logicalInfo.scale) THEN logicalInfo.scale[1] ELSE 0),
                       getSigned(value, 4).v)
    ELSE Rendered("number", <<>>, getSigned(value, 4).v)

\* lines 347-364
formatINT64(value, logicalInfo) ==
    IF tooShort(value, 8) THEN Rendered("N/A", NotAvailable, 0)
    ELSE IF getSigned(value, 8).threw THEN Raised
    ELSE IF logicalInfo.type = "TIMESTAMP" THEN Rendered("timestamp", <<>>, getSigned(value, 8).v)
    ELSE IF logicalInfo.type = "TIME" THEN Rendered("time", <<>>, getSigned(value, 8).v)
    ELSE IF logicalInfo.type = "DECIMAL"
         THEN Rendered("decimal",
                       formatDecimal(getSigned(value, 8).v,
                                     IF Truthy(logicalInfo.scale) THEN logicalInfo.scale[1] ELSE 0),
                       getSigned(value, 8).v)
    ELSE Rendered("number", <<>>, getSigned(value, 8).v)

\* lines 280-303 and 369: the Julian day of a twelve-byte value, less the day
\* of the epoch; the Date is valid within 100,000,000 days of the epoch.  The
\* nanoseconds of bytes 1..4 add less than a day.
unixDaysOf(bytes) == littleEndian(SubSeq(bytes, 9, 12), 4) - 2440588

validDate(bytes) ==
    \/ unixDaysOf(bytes) > -100000000 /\ unixDaysOf(bytes) < 100000000
    \/ unixDaysOf(bytes) = -100000000
    \/ unixDaysOf(bytes) = 100000000 /\ littleEndian(SubSeq(bytes, 1, 4), 4) < 1000000

\* lines 367-376
formatINT96(value) ==
    IF Len(value) = 12 /\ validDate(value) THEN Rendered("timestamp", <<>>, unixDaysOf(value))
    ELSE Rendered("hex", hexOf(SubSeq(value, 1, Min(12, Len(value))), <<" ">>), 0)

\* lines 379-394 and 397-412: the float itself is left abstract
formatFloat(value, width) ==
    IF tooShort(value, width) THEN Rendered("N/A", NotAvailable, 0)
    ELSE IF Len(value) < width THEN Raised
    ELSE Rendered("float", <<>>, 0)

\* The bytes read as an unsigned big-endian integer, whatever the top bit.
RECURSIVE decimalUnsigned(_, _)
decimalUnsigned(value, isNegative) ==
    IF value = <<>> THEN 0
    ELSE 256 * decimalUnsigned(SubSeq(value, 1, Len(value) - 1), isNegative)
         + value[Len(value)]

\* lines 427-429: the loop, over the bytes complemented when the top bit is set
RECURSIVE decimalLoop(_, _)
decimalLoop(value, isNegative) ==
    IF value = <<>> THEN 0
    ELSE 256 * decimalLoop(SubSeq(value, 1, Len(value) - 1), isNegative)
         + (IF isNegative THEN 255 - value[Len(value)] ELSE value[Len(value)])

\* lines 424-433
decimalOfBytes(value) ==
    IF value # <<>> /\ value[1] >= 128
    THEN 0 - (decimalLoop(value, TRUE) + 1)
    ELSE decimalLoop(value, FALSE)

\* TextDecoder('utf-8', {fatal: true}): the length of the well-formed
\* character at position i, 0 when there is none
Continuation(bytes, i) == i <= Len(bytes) /\ bytes[i] >= 128 /\ bytes[i] <= 191

charLen(bytes, i) ==
    IF bytes[i] < 128 THEN 1
    ELSE IF /\ bytes[i] >= 194 /\ bytes[i] <= 223
            /\ Continuation(bytes, i + 1)
         THEN 2
    ELSE IF /\ bytes[i] >= 224 /\ bytes[i] <= 239
            /\ Continuation(bytes, i + 1) /\ Continuation(bytes, i + 2)
            /\ (bytes[i] = 224 => bytes[i + 1] >= 160)
            /\ (bytes[i] = 237 => bytes[i + 1] <= 159)
         THEN 3
    ELSE IF /\ bytes[i] >= 240 /\ bytes[i] <= 244
            /\ Continuation(bytes, i + 1) /\ Continuation(bytes, i + 2)
            /\ Continuation(bytes, i + 3)
            /\ (bytes[i] = 240 => bytes[i + 1] >= 144)
            /\ (bytes[i] = 244 => bytes[i + 1] <= 143)
         THEN 4
    ELSE 0

\* line 450: the character at i, n bytes long, is accepted by the pattern
printable(bytes, i, n) ==
    IF n = 1 THEN (bytes[i] >= 32 /\ bytes[i] <= 126) \/ bytes[i] \in {9, 10, 13}
    ELSE IF n = 2 THEN (bytes[i] - 192) * 64 + (bytes[i + 1] - 128) >= 160
    ELSE TRUE

\* lines 445-461: "text" when the bytes from i on decode and are printable,
\* "binary" when the decoder throws or the pattern rejects the text
RECURSIVE decodeText(_, _)
decodeText(bytes, i) ==
    IF i > Len(bytes) THEN "text"
    ELSE IF charLen(bytes, i) = 0 THEN "binary"
    ELSE IF ~printable(bytes, i, charLen(bytes, i)) THEN "binary"
    ELSE decodeText(bytes, i + charLen(bytes, i))

\* lines 415-469
formatByteArray(value, logicalInfo) ==
    IF logicalInfo.type = "UUID" THEN Rendered("uuid", formatUUID(value), 0)
    ELSE IF logicalInfo.type = "DECIMAL"
         THEN Rendered("decimal",
                       formatDecimal(decimalOfBytes(value),
                                     IF Truthy(logicalInfo.scale) THEN logicalInfo.scale[1] ELSE 0),
                       decimalOfBytes(value))
    ELSE IF /\ logicalInfo.type \in {"STRING", "JSON", "ENUM", "null"}
            /\ decodeText(value, 1) = "text"
         THEN Rendered("text", <<>>, Len(value))
    ELSE Rendered("hex", hexDump(value), 0)

\* lines 319-471, the body of the try, on the bytes of the value
formatBytes(value, physicalType, logicalInfo) ==
    IF physicalType = "BOOLEAN"
    THEN IF value # <<>> /\ value[1] # 0
         THEN Rendered("boolean", <<"t", "r", "u", "e">>, 1)
         ELSE Rendered("boolean", <<"f", "a", "l", "s", "e">>, 0)
    ELSE IF physicalType = "INT32" THEN formatINT32(value, logicalInfo)
    ELSE IF physicalType = "INT64" THEN formatINT64(value, logicalInfo)
    ELSE IF physicalType = "INT96" THEN formatINT96(value)
    ELSE IF physicalType = "FLOAT" THEN formatFloat(value, 4)
    ELSE IF physicalType = "DOUBLE" THEN formatFloat(value, 8)
    ELSE IF physicalType \in {"BYTE_ARRAY", "FIXED_LEN_BYTE_ARRAY"}
         THEN formatByteArray(value, logicalInfo)
    ELSE Rendered("N/A", NotAvailable, 0)

\* The test for a missing value or column dropped: the body runs on whatever
\* was passed.
neverMissing(value, columnMeta) == FALSE

\* line 313: !value || !columnMeta
missing(value, columnMeta) == value = None \/ ~columnMeta

\* lines 318-479: the try and its catch.  A value that is not there has no
\* buffer (line 319 throws) and no slice (the catch throws in its turn).
guarded(value, physicalType, logicalInfo) ==
    IF value = None THEN Raised
    ELSE IF formatBytes(value[1], physicalType, logicalInfo).threw
         THEN Rendered("hex", hexDump(value[1]), 0)
    ELSE formatBytes(value[1], physicalType, logicalInfo)

\* lines 312-480; physicalType and logicalInfo are the values of lines 315-316
formatStatValue(value, columnMeta, physicalType, logicalInfo) ==
    IF missing(value, columnMeta) THEN Rendered("N/A", NotAvailable, 0)
    ELSE guarded(value, physicalType, logicalInfo)

\* No formatter call made.
StatsIdle ==
    [pc |-> "idle", op |-> "none", value |-> None, columnMeta |-> FALSE,
     physicalType |-> "", logicalInfo |-> [type |-> "null", scale |-> None],
     intValue |-> 0, scale |-> 0, out |-> Rendered("none", <<>>, 0)]

(***************************************************************************)
(* State.                                                                  *)
(***************************************************************************)
VARIABLES
    file,          \* the File (streaming) / ArrayBuffer (legacy) being decoded
    pc,            \* where parseParquetFileStreaming is suspended
    error,         \* why it threw: "" while it has not
    footerLength,  \* its local footerLength (-1: not yet assigned)
    footerStart,   \* its local footerStart (-1: not yet assigned)
    footerRead,    \* the byte ranges handed to the FileMetaData decode
    fileMetaData,  \* the decoded row groups
    batches,       \* parsePageIndexesStreaming's batches
    batchIdx,      \* the batch whose read is awaited (1-based)
    indexes,       \* parsePageIndexesStreaming's indexes
    reads,         \* every readFileSlice call so far: [start, end, what]
    decodes,       \* every index decode of the streaming call
    legacy,        \* parseParquetFile's outcome on the same bytes
    sched,         \* the range scheduler run on its own (SpecSched)
    thrift,        \* a TCompactProtocolReader driven by a caller (SpecThrift)
    stats,         \* a call of the statistics formatter (SpecStats)
    app,           \* the App component's state and its loads (SpecApp)
    peer           \* a second parseParquetFileStreaming call, suspended (SpecPair)

vars == <<file, pc, error, footerLength, footerStart, footerRead, fileMetaData,
          batches, batchIdx, indexes, reads, decodes, legacy, sched, thrift,
          stats, app, peer>>

\* The state of the other entry points, which a decode of a file leaves alone.
aside == <<stats, app, peer>>

streamVars == <<pc, error, footerLength, footerStart, footerRead, fileMetaData,
                batches, batchIdx, indexes, reads, decodes>>

SchedIdle ==
    [pc |-> "idle", gap |-> 0, requests |-> <<>>, todo |-> <<>>,
     plan |-> [batches |-> <<>>, currentBatch |-> <<>>], batches |-> <<>>]

\* No reader operation performed yet.
NoCall ==
    [op |-> "none", arg |-> 0, before |-> NewReader(<<>>),
     out |-> [err |-> FALSE, r |-> NewReader(<<>>)]]

ThriftIdle == [pc |-> "idle", rd |-> NewReader(<<>>), last |-> NoCall, calls |-> 0]

\* The App component as mounted (App.jsx lines 34-37), no handler called yet.
AppIdle ==
    [parquetData |-> "null", fileName |-> "null", loading |-> FALSE, error |-> "null",
     theme |-> "light", tasks |-> {}, loads |-> 0, event |-> "mount"]

\* No second call.
PeerIdle ==
    [file |-> <<>>, pc |-> "idle", error |-> "", footerLength |-> -1, footerStart |-> -1,
     footerRead |-> <<>>, fileMetaData |-> <<>>, batches |-> <<>>, batchIdx |-> 0,
     indexes |-> <<>>, reads |-> <<>>, decodes |-> <<>>]

AsideIdle ==
    /\ stats = StatsIdle
    /\ app = AppIdle
    /\ peer = PeerIdle

LegacyInit ==
    [pc |-> "start", error |-> "", fileSize |-> 0, footerLength |-> -1,
     footerStart |-> -1, footerRead |-> <<>>, pageIndexes |-> <<>>, decodes |-> <<>>]

StreamInit ==
    /\ pc = "start"
    /\ error = ""
    /\ footerLength = -1
    /\ footerStart = -1
    /\ footerRead = <<>>
    /\ fileMetaData = <<>>
    /\ batches = <<>>
    /\ batchIdx = 0
    /\ indexes = <<>>
    /\ reads = <<>>
    /\ decodes = <<>>
    /\ legacy = LegacyInit

Init ==
    /\ \/ file \in LaidOutFiles
       \/ file \in EnvelopeFiles
    /\ StreamInit
    /\ sched = SchedIdle
    /\ thrift = ThriftIdle
    /\ AsideIdle

(***************************************************************************)
(* parseParquetFileStreaming, one action per stretch between two awaits.   *)
(***************************************************************************)
ReadCall(start, end, what) == [start |-> start, end |-> end, what |-> what]

Throw(msg) ==
    /\ pc' = "failed"
    /\ error' = msg

\* lines 68-76: the size check, then the header read is issued
StreamStart ==
    /\ pc = "start"
    /\ IF file.size < 12
       THEN /\ Throw("too small")
            /\ UNCHANGED reads
       ELSE /\ pc' = "awaitHeader"
            /\ reads' = Append(reads, ReadCall(0, 4, "header"))
            /\ UNCHANGED error
    /\ UNCHANGED <<file, footerLength, footerStart, footerRead, fileMetaData,
                   batches, batchIdx, indexes, decodes, legacy, sched, thrift, aside>>

\* lines 76-82: the header read returns or throws (readFileSlice, lines 42-59)
StreamHeader ==
    /\ pc = "awaitHeader"
    /\ \E ok \in BOOLEAN :
         LET headerMagic == Materialize(file, BlobSlice(file, 0, 4))
         IN IF ~ok
            THEN /\ Throw("read header")
                 /\ UNCHANGED reads
            ELSE IF ~bytesEqual(headerMagic, PARQUET_MAGIC)
            THEN /\ Throw("header magic")
                 /\ UNCHANGED reads
            ELSE /\ pc' = "awaitTrailer"
                 /\ reads' = Append(reads, ReadCall(file.size - 8, file.size, "trailer"))
                 /\ UNCHANGED error
    /\ UNCHANGED <<file, footerLength, footerStart, footerRead, fileMetaData,
                   batches, batchIdx, indexes, decodes, legacy, sched, thrift, aside>>

\* The length check against the file size instead of the file size less the trailer.
FooterLengthWithinFile(len, fileSize) == ~(len > fileSize)

\* lines 91-95
FooterLengthOK(len, fileSize) == ~(len > fileSize - 8)

\* The footer start computed without the length field's four bytes.
FooterStartNoLengthField(fileSize, len) == fileSize - 4 - len

\* line 98
FooterStartOf(fileSize, len) == fileSize - 8 - len

\* lines 82-99: the trailer read returns; magic and length are checked and the
\* footer read is issued
StreamTrailer ==
    /\ pc = "awaitTrailer"
    /\ \E ok \in BOOLEAN :
         LET footerEnd == Materialize(file, BlobSlice(file, file.size - 8, file.size))
             footerMagic == SubSeq(footerEnd, 5, 8)
             len == getUint32LE(footerEnd)
             start == FooterStartOf(file.size, len)
         IN IF ~ok
            THEN /\ Throw("read trailer")
                 /\ UNCHANGED <<reads, footerLength, footerStart>>
            ELSE IF ~bytesEqual(footerMagic, PARQUET_MAGIC)
            THEN /\ Throw("footer magic")
                 /\ UNCHANGED <<reads, footerLength, footerStart>>
            ELSE IF ~FooterLengthOK(len, file.size)
            THEN /\ Throw("footer length")
                 /\ footerLength' = len
                 /\ UNCHANGED <<reads, footerStart>>
            ELSE /\ pc' = "awaitFooter"
                 /\ footerLength' = len
                 /\ footerStart' = start
                 /\ reads' = Append(reads, ReadCall(start, start + len, "footer"))
                 /\ UNCHANGED error
    /\ UNCHANGED <<file, footerRead, fileMetaData, batches, batchIdx, indexes,
                   decodes, legacy, sched, thrift, aside>>

\* The batches taken from the last to the first.
PlanBatchesDescending(row_groups) ==
    Reverse(BuildBatches(SortByOffset(CollectRequests(row_groups, 1)), MAX_GAP))

\* lines 183-241
PlanBatches(row_groups) == BuildBatches(SortByOffset(CollectRequests(row_groups, 1)), MAX_GAP)

\* line 255
BatchRead(batch) == ReadCall(batch.start, batch.end, "batch")

\* lines 99-107 and 178-255: the footer read returns; the footer is decoded, the
\* batches are planned, the result slots allocated and the first batch read issued
StreamFooter ==
    /\ pc = "awaitFooter"
    /\ \E ok \in BOOLEAN :
         LET footerBytes == BlobSlice(file, footerStart, footerStart + footerLength)
             plan == PlanBatches(file.meta)
         IN IF ~ok
            THEN /\ Throw("read footer")
                 /\ UNCHANGED <<reads, footerRead, fileMetaData, batches, batchIdx, indexes>>
            ELSE IF ~file.footerOK
            THEN /\ Throw("footer decode")
                 /\ footerRead' = Append(footerRead, footerBytes)
                 /\ UNCHANGED <<reads, fileMetaData, batches, batchIdx, indexes>>
            ELSE /\ footerRead' = Append(footerRead, footerBytes)
                 /\ fileMetaData' = file.meta
                 /\ batches' = plan
                 /\ indexes' = InitIndexes(file.meta)
                 /\ UNCHANGED error
                 /\ IF plan = <<>>
                    THEN /\ pc' = "done"
                         /\ UNCHANGED <<reads, batchIdx>>
                    ELSE /\ pc' = "awaitBatch"
                         /\ batchIdx' = 1
                         /\ reads' = Append(reads, BatchRead(plan[1]))
    /\ UNCHANGED <<file, footerLength, footerStart, decodes, legacy, sched, thrift, aside>>

\* lines 255-278: a batch read returns; its requests are decoded and the next
\* batch read is issued, or the indexes are returned.  A read that throws is
\* not caught: it ends parsePageIndexesStreaming and the whole call.
StreamBatch ==
    /\ pc = "awaitBatch"
    /\ \E ok \in BOOLEAN :
         LET batch == batches[batchIdx]
             batchBytes == BlobSlice(file, batch.start, batch.end)
             acc == ProcessBatch(file, [indexes |-> indexes, decodes |-> decodes],
                                 batch, batchBytes)
         IN IF ~ok
            THEN /\ Throw("read batch")
                 /\ UNCHANGED <<reads, batchIdx, indexes, decodes>>
            ELSE /\ indexes' = acc.indexes
                 /\ decodes' = acc.decodes
                 /\ UNCHANGED error
                 /\ IF batchIdx = Len(batches)
                    THEN /\ pc' = "done"
                         /\ UNCHANGED <<reads, batchIdx>>
                    ELSE /\ pc' = "awaitBatch"
                         /\ batchIdx' = batchIdx + 1
                         /\ reads' = Append(reads, BatchRead(batches[batchIdx + 1]))
    /\ UNCHANGED <<file, footerLength, footerStart, footerRead, fileMetaData,
                   batches, legacy, sched, thrift, aside>>

(***************************************************************************)
(* parseParquetFile (legacy), lines 124-172: no read is awaited, the whole *)
(* call is one step.                                                       *)
(***************************************************************************)
LegacyFail(msg) == [LegacyInit EXCEPT !.pc = "failed", !.error = msg, !.fileSize = file.size]

parseParquetFile(f) ==
    LET bytes == [lo |-> 0, hi |-> f.size]
        fileSize == ViewLen(bytes)
        headerMagic == Materialize(f, ArraySlice(bytes, 0, 4))
        footerMagic == Materialize(f, ArraySlice(bytes, fileSize - 4, fileSize))
        footerLengthBytes == Materialize(f, ArraySlice(bytes, fileSize - 8, fileSize - 4))
        len == getUint32LE(footerLengthBytes)
        start == FooterStartOf(fileSize, len)
        footerBytes == ArraySlice(bytes, start, start + len)
        acc == parsePageIndexes(f, bytes, f.meta)
    IN IF fileSize < 12 THEN LegacyFail("too small")
       ELSE IF ~bytesEqual(headerMagic, PARQUET_MAGIC) THEN LegacyFail("header magic")
       ELSE IF ~bytesEqual(footerMagic, PARQUET_MAGIC) THEN LegacyFail("footer magic")
       ELSE IF ~FooterLengthOK(len, fileSize)
            THEN [LegacyFail("footer length") EXCEPT !.footerLength = len]
       ELSE IF ~f.footerOK
            THEN [LegacyFail("footer decode") EXCEPT
                     !.footerLength = len, !.footerStart = start,
                     !.footerRead = <<footerBytes>>]
       ELSE [pc |-> "done", error |-> "", fileSize |-> fileSize,
             footerLength |-> len, footerStart |-> start,
             footerRead |-> <<footerBytes>>,
             pageIndexes |-> acc.indexes, decodes |-> acc.decodes]

ParseLegacy ==
    /\ legacy.pc = "start"
    /\ legacy' = parseParquetFile(file)
    /\ UNCHANGED <<file, streamVars, sched, thrift, aside>>

Next ==
    \/ StreamStart
    \/ StreamHeader
    \/ StreamTrailer
    \/ StreamFooter
    \/ StreamBatch
    \/ ParseLegacy

Spec == Init /\ [][Next]_vars

(***************************************************************************)
(* The range scheduler on its own (lines 210-241), one loop turn per step, *)
(* over request lists and gap tolerances drawn from small sets.            *)
(***************************************************************************)
MaxRequests == 3

SchedOffsets == {100, 200, 1250, 1251, 10000, 66300}

SchedLengths == {50, 1000}

SchedGaps == {1000, MAX_GAP}

\* Request lists of length n; request i is tagged (rgIdx 1, colIdx i).
RequestLists(n) ==
    {[i \in 1..n |-> Request(1, i, "columnIndex", ol[i][1], ol[i][2])] :
        ol \in [1..n -> SchedOffsets \X SchedLengths]}

SchedInit ==
    /\ \E n \in 0..MaxRequests :
         \E reqs \in RequestLists(n), gap \in SchedGaps :
            sched = [SchedIdle EXCEPT !.pc = "sort", !.gap = gap, !.requests = reqs]
    /\ file = EnvelopeFile(12, PARQUET_MAGIC, <<0, 0, 0, 0>>, PARQUET_MAGIC, TRUE)
    /\ StreamInit
    /\ thrift = ThriftIdle
    /\ AsideIdle

\* line 211
SchedSort ==
    /\ sched.pc = "sort"
    /\ sched' = [sched EXCEPT !.pc = "loop", !.todo = SortByOffset(sched.requests)]
    /\ UNCHANGED <<file, streamVars, legacy, thrift, aside>>

\* lines 218-238
SchedStep ==
    /\ sched.pc = "loop"
    /\ sched.todo # <<>>
    /\ sched' = [sched EXCEPT !.plan = BatchStep(sched.plan, Head(sched.todo), sched.gap),
                              !.todo = Tail(sched.todo)]
    /\ UNCHANGED <<file, streamVars, legacy, thrift, aside>>

\* lines 239-241
SchedFinish ==
    /\ sched.pc = "loop"
    /\ sched.todo = <<>>
    /\ sched' = [sched EXCEPT !.pc = "done", !.batches = BatchFinish(sched.plan)]
    /\ UNCHANGED <<file, streamVars, legacy, thrift, aside>>

SchedNext ==
    \/ SchedSort
    \/ SchedStep
    \/ SchedFinish

SpecSched == SchedInit /\ [][SchedNext]_vars

\* The value parseParquetFileStreaming returns (lines 109-115).
StreamResult ==
    [fileSize |-> file.size, footerLength |-> footerLength,
     footerStart |-> footerStart, pageIndexes |-> indexes]

(***************************************************************************)
(* The reader on its own: a caller holds a TCompactProtocolReader over a   *)
(* buffer and makes up to MaxCalls calls of its methods, one after the      *)
(* other, in any order, until one of them throws.  thrift.last is the latest call: the reader before  *)
(* it, its argument and its outcome.                                       *)
(***************************************************************************)
MaxBufLen == 2

MaxCalls == 3

\* The bytes the enumerated buffers are made of: 0 (Stop, an empty count),
\* small values, the header 0x15 (delta 1, i32) and a continuation byte.
BufferBytes == {0, 1, 2, 21, 128}

\* Buffers for particular cases: field headers (0x11 and 0x12 booleans, 0x35
\* then 0x15, the long form 0x05), a type 13 header with eight bytes behind
\* it, a struct field holding field 3 and followed by a short-form header,
\* varints of one to three bytes, binaries, list, set and map headers.
CaseBuffers ==
    {<<17, 1>>, <<18, 0>>, <<53, 2, 21>>, <<5, 6, 21, 2>>,
     <<13, 2, 0, 0, 0, 0, 0, 0, 0, 0>>, <<29, 0, 0, 0, 0, 0, 0, 0, 0>>,
     <<28, 53, 2, 0, 21, 2>>, <<28, 28, 21, 2, 0, 0, 37>>,
     <<3>>, <<4, 7>>, <<255, 127>>, <<255, 255, 3>>, <<128, 128, 4>>, <<172, 2>>,
     <<2, 7, 9, 11>>, <<3, 7, 9>>, <<0, 7>>, <<130, 1, 7>>,
     <<53, 2, 4, 6>>, <<245, 15, 1>>, <<245, 172, 2>>, <<229, 1, 2>>, <<24, 3, 97, 98, 99>>,
     <<2, 88, 1, 2, 3>>, <<0, 88>>, <<128, 1, 21>>, <<1, 200>>,
     <<25, 28, 21, 2, 0, 0>>, <<1, 89, 2, 33, 1, 2>>, <<17, 28, 5, 4, 7, 0, 0>>,
     <<41, 19, 7, 3>>, <<243, 2, 7, 8>>,
     <<27, 1, 136, 1, 97, 0, 23, 0, 0, 0, 0, 0, 0, 0, 0, 24, 2, 97, 98, 0>>}

ThriftBuffers ==
    UNION {[1..n -> BufferBytes] : n \in 0..MaxBufLen} \cup CaseBuffers

ThriftInit ==
    /\ \E buffer \in ThriftBuffers :
          thrift = [ThriftIdle EXCEPT !.pc = "ready", !.rd = NewReader(buffer)]
    /\ file = EnvelopeFile(12, PARQUET_MAGIC, <<0, 0, 0, 0>>, PARQUET_MAGIC, TRUE)
    /\ StreamInit
    /\ sched = SchedIdle
    /\ AsideIdle

\* The caller's call of method op with argument arg has had outcome out.
Called(op, arg, out) ==
    /\ thrift.pc = "ready"
    /\ thrift.calls < MaxCalls
    /\ thrift' = [pc |-> IF out.err THEN "failed" ELSE "ready",
                  calls |-> thrift.calls + 1,
                  rd |-> out.r,
                  last |-> [op |-> op, arg |-> arg, before |-> thrift.rd, out |-> out]]
    /\ UNCHANGED <<file, streamVars, legacy, sched, aside>>

\* The methods that cannot throw, as outcomes.
Returned(r) == [err |-> FALSE, r |-> r]

CallReadByte == Called("readByte", 0, readByte(thrift.rd))

CallReadVarint == Called("readVarint", 0, readVarint(thrift.rd))

CallReadZigZag == Called("readZigZag", 0, readZigZag(thrift.rd))

CallReadI16 == Called("readI16", 0, readI16(thrift.rd))

CallReadI32 == Called("readI32", 0, readI32(thrift.rd))

CallReadI64 == Called("readI64", 0, readI64(thrift.rd))

CallReadDouble == Called("readDouble", 0, readDouble(thrift.rd))

CallReadBinary == Called("readBinary", 0, readBinary(thrift.rd))

CallReadBool == Called("readBool", 0, readBool(thrift.rd))

CallReadStructBegin == Called("readStructBegin", 0, Returned(readStructBegin(thrift.rd)))

\* Called only to close a struct that readStructBegin opened.
CallReadStructEnd ==
    /\ Len(thrift.rd.lastFieldId) >= 2
    /\ Called("readStructEnd", 0, Returned(readStructEnd(thrift.rd)))

CallReadFieldBegin == Called("readFieldBegin", 0, readFieldBegin(thrift.rd))

CallReadListBegin == Called("readListBegin", 0, readListBegin(thrift.rd))

CallReadSetBegin == Called("readSetBegin", 0, readSetBegin(thrift.rd))

CallReadMapBegin == Called("readMapBegin", 0, readMapBegin(thrift.rd))

CallSkip == \E type \in 0..15 : Called("skip", type, skip(thrift.rd, type))

ThriftNext ==
    \/ CallReadByte
    \/ CallReadVarint
    \/ CallReadZigZag
    \/ CallReadI16
    \/ CallReadI32
    \/ CallReadI64
    \/ CallReadDouble
    \/ CallReadBinary
    \/ CallReadBool
    \/ CallReadStructBegin
    \/ CallReadStructEnd
    \/ CallReadFieldBegin
    \/ CallReadListBegin
    \/ CallReadSetBegin
    \/ CallReadMapBegin
    \/ CallSkip

SpecThrift == ThriftInit /\ [][ThriftNext]_vars

(***************************************************************************)
(* The statistics formatter on its own: one call of formatStatValue or of  *)
(* formatDecimal on inputs drawn from small sets.  The values are every    *)
(* byte string up to MaxValueLen over StatBytes and the longer CaseValues;  *)
(* the four- and eight-byte ones stay within 32 bits.                      *)
(***************************************************************************)
MaxValueLen == 2

MaxScale == 3

StatBytes == {0, 1, 5, 65, 127, 128, 255}

CaseValues ==
    {<<57, 48, 0, 0>>, <<251, 255, 255, 255>>, <<255, 255, 255, 127>>, <<0, 0, 0>>,
     <<57, 48, 0, 0, 0, 0, 0, 0>>, <<251, 255, 255, 255, 255, 255, 255, 255>>,
     <<1, 2, 3, 4, 5, 6, 7>>, <<48, 57, 1>>, <<255, 254, 199>>, <<128, 0, 1>>,
     <<0, 0, 0, 0, 0, 0, 0, 0, 140, 61, 37, 0>>,
     <<0, 0, 0, 0, 0, 0, 0, 0, 255, 255, 255, 127>>,
     <<1, 2, 3, 4, 0, 0, 0, 0, 9, 10, 11, 12, 13>>,
     <<0, 17, 34, 51, 0, 0, 0, 0, 136, 153, 170, 187, 204, 221, 238, 255>>,
     <<65, 66, 67, 68, 0, 0, 0, 0, 73, 74, 75, 76, 77, 78, 79, 80, 255>>,
     <<194, 160>>, <<194, 128>>, <<226, 130, 172>>, <<240, 159, 152, 128>>, <<104, 105>>}

StatValues == UNION {[1..n -> StatBytes] : n \in 0..MaxValueLen} \cup CaseValues

PhysicalTypes ==
    {"BOOLEAN", "INT32", "INT64", "INT96", "FLOAT", "DOUBLE", "BYTE_ARRAY",
     "FIXED_LEN_BYTE_ARRAY", "Unknown(8)"}

LogicalInfos ==
    {[type |-> t, scale |-> None] :
        t \in {"null", "STRING", "DATE", "TIME", "TIMESTAMP", "INTEGER", "UUID", "JSON",
               "BSON", "ENUM"}}
    \cup {[type |-> "DECIMAL", scale |-> s] : s \in {None} \cup {Some(k) : k \in 0..MaxScale}}

DecimalInts == {-12345, -100, -10, -5, -1, 0, 5, 9, 10, 99, 100, 12345, 2147483647}

DecimalScales == -1..MaxScale

\* The bytes behind the first keep are the sign extension of the rest, so that
\* the integer they spell is one of at most keep bytes.
SignExtended(bytes, keep) ==
    IF Len(bytes) <= keep THEN TRUE
    ELSE IF bytes[keep] < 128 THEN \A i \in (keep + 1)..Len(bytes) : bytes[i] = 0
    ELSE \A i \in (keep + 1)..Len(bytes) : bytes[i] = 255

\* The integer the call decodes the value to has at most 31 bits.
WithinInt(value, physicalType, logicalInfo) ==
    /\ (physicalType = "INT64" /\ Len(value) >= 8) => SignExtended(SubSeq(value, 1, 8), 4)
    /\ (physicalType \in {"BYTE_ARRAY", "FIXED_LEN_BYTE_ARRAY"} /\ logicalInfo.type = "DECIMAL")
          => Len(value) <= 3

StatsInit ==
    /\ \/ \E value \in {None} \cup {Some(v) : v \in StatValues}, columnMeta \in BOOLEAN,
             physicalType \in PhysicalTypes, logicalInfo \in LogicalInfos :
             /\ IF value = None THEN TRUE
                ELSE WithinInt(value[1], physicalType, logicalInfo)
             /\ stats = [StatsIdle EXCEPT !.pc = "ready", !.op = "formatStatValue",
                                       !.value = value, !.columnMeta = columnMeta,
                                       !.physicalType = physicalType,
                                       !.logicalInfo = logicalInfo]
       \/ \E intValue \in DecimalInts, scale \in DecimalScales :
             stats = [StatsIdle EXCEPT !.pc = "ready", !.op = "formatDecimal",
                                       !.intValue = intValue, !.scale = scale]
    /\ file = EnvelopeFile(12, PARQUET_MAGIC, <<0, 0, 0, 0>>, PARQUET_MAGIC, TRUE)
    /\ StreamInit
    /\ sched = SchedIdle
    /\ thrift = ThriftIdle
    /\ app = AppIdle
    /\ peer = PeerIdle

\* formatStatValue is called and returns or throws
FormatStatValue ==
    /\ stats.pc = "ready"
    /\ stats.op = "formatStatValue"
    /\ stats' = [stats EXCEPT
                    !.pc = "done",
                    !.out = formatStatValue(stats.value, stats.columnMeta,
                                            stats.physicalType, stats.logicalInfo)]
    /\ UNCHANGED <<file, streamVars, legacy, sched, thrift, app, peer>>

\* formatDecimal is called and returns
FormatDecimal ==
    /\ stats.pc = "ready"
    /\ stats.op = "formatDecimal"
    /\ stats' = [stats EXCEPT
                    !.pc = "done",
                    !.out = Rendered("decimal", formatDecimal(stats.intValue, stats.scale),
                                     stats.intValue)]
    /\ UNCHANGED <<file, streamVars, legacy, sched, thrift, app, peer>>

StatsNext ==
    \/ FormatStatValue
    \/ FormatDecimal

SpecStats == StatsInit /\ [][StatsNext]_vars

(***************************************************************************)
(* The App component (App.jsx).  app holds its four pieces of state, the   *)
(* theme of useTheme, the loads suspended at an await (tasks) and the handler or *)
(* continuation that ran last (event).  A step is one handler call up to    *)
(* its first await or one continuation up to the next, followed by the      *)
(* render; "null" stands for null.                                          *)
(***************************************************************************)
MaxLoads == 3

AppFiles == {"a.parquet", "b.parquet", "c.parquet"}

\* The message of an error a load can end with; "" is an error without one.
ErrMessages == {"", "Invalid Parquet file: missing header magic", "read failed"}

\* The upload panel shown even while a load is running.
UploadShownWhileLoading(a) == a.parquetData = "null"

\* lines 118-120: the upload panel, with file select and load example
UploadShown(a) == a.parquetData = "null" /\ ~a.loading

\* line 131: the error panel, with dismiss
ErrorShown(a) == a.error # "null"

\* lines 93-100: the Load New File button
LoadNewFileShown(a) == a.parquetData # "null"

\* lines 50 and 71: err.message || fallback
MessageOr(message, fallback) == IF message = "" THEN fallback ELSE message

\* lines 48-53 and 69-74: the load of task t resolved with data
Resolved(a, t, data) ==
    [a EXCEPT !.parquetData = data, !.loading = FALSE, !.tasks = @ \ {t},
              !.event = "finish"]

\* lines 49-53 and 70-74: the load of task t threw; message is what setError gets
Rejected(a, t, message) ==
    [a EXCEPT !.error = message, !.parquetData = "null", !.loading = FALSE,
              !.tasks = @ \ {t}, !.event = "finish"]

\* lines 40-47 and 58-63: a handler up to its first await
Started(a, kind, name, at) ==
    [a EXCEPT !.loading = TRUE, !.error = "null", !.fileName = name,
              !.tasks = @ \cup {[id |-> a.loads + 1, kind |-> kind, file |-> name, pc |-> at]},
              !.loads = @ + 1, !.event = kind]

\* The theme useTheme starts from is the stored or the system's one
\* (useTheme.js lines 12-25).
AppInit ==
    /\ \E theme \in {"light", "dark"} : app = [AppIdle EXCEPT !.theme = theme]
    /\ file = EnvelopeFile(12, PARQUET_MAGIC, <<0, 0, 0, 0>>, PARQUET_MAGIC, TRUE)
    /\ StreamInit
    /\ sched = SchedIdle
    /\ thrift = ThriftIdle
    /\ stats = StatsIdle
    /\ peer = PeerIdle

\* lines 39-47: handleFileSelect(file) up to the await of the parse
HandleFileSelect ==
    /\ UploadShown(app)
    /\ app.loads < MaxLoads
    /\ \E name \in AppFiles : app' = Started(app, "select", name, "parse")
    /\ UNCHANGED <<file, streamVars, legacy, sched, thrift, stats, peer>>

\* lines 47-54: parseParquetFileStreaming resolves or rejects
FileSelectSettles ==
    /\ \E t \in app.tasks :
          /\ t.kind = "select"
          /\ \/ app' = Resolved(app, t, t.file)
             \/ \E message \in ErrMessages :
                   app' = Rejected(app, t, MessageOr(message, "Failed to parse Parquet file"))
    /\ UNCHANGED <<file, streamVars, legacy, sched, thrift, stats, peer>>

\* lines 57-63: handleLoadExample up to the await of the fetch
HandleLoadExample ==
    /\ UploadShown(app)
    /\ app.loads < MaxLoads
    /\ app' = Started(app, "example", "example_file.parquet", "fetch")
    /\ UNCHANGED <<file, streamVars, legacy, sched, thrift, stats, peer>>

\* lines 63-67: the fetch resolves (ok or not) or rejects
ExampleFetched ==
    /\ \E t \in app.tasks :
          /\ t.kind = "example"
          /\ t.pc = "fetch"
          /\ \/ app' = [app EXCEPT !.tasks = (@ \ {t}) \cup {[t EXCEPT !.pc = "buffer"]},
                                   !.event = "fetched"]
             \/ app' = Rejected(app, t, "Failed to load example file")
             \/ \E message \in ErrMessages :
                   app' = Rejected(app, t, MessageOr(message, "Failed to load example file"))
    /\ UNCHANGED <<file, streamVars, legacy, sched, thrift, stats, peer>>

\* lines 67-75: arrayBuffer resolves and parseParquetFile returns or throws,
\* or arrayBuffer rejects
ExampleParsed ==
    /\ \E t \in app.tasks :
          /\ t.kind = "example"
          /\ t.pc = "buffer"
          /\ \/ app' = Resolved(app, t, t.file)
             \/ \E message \in ErrMessages :
                   app' = Rejected(app, t, MessageOr(message, "Failed to load example file"))
    /\ UNCHANGED <<file, streamVars, legacy, sched, thrift, stats, peer>>

\* lines 78-82: handleReset, from the error panel or the Load New File button
HandleReset ==
    /\ ErrorShown(app) \/ LoadNewFileShown(app)
    /\ app' = [app EXCEPT !.parquetData = "null", !.fileName = "null", !.error = "null",
                          !.event = "reset"]
    /\ UNCHANGED <<file, streamVars, legacy, sched, thrift, stats, peer>>

\* useTheme.js lines 51-58: toggleTheme, from the button of the header
ToggleTheme ==
    /\ app' = [app EXCEPT !.theme = IF @ = "dark" THEN "light" ELSE "dark",
                          !.event = "theme"]
    /\ UNCHANGED <<file, streamVars, legacy, sched, thrift, stats, peer>>

AppNext ==
    \/ HandleFileSelect
    \/ FileSelectSettles
    \/ HandleLoadExample
    \/ ExampleFetched
    \/ ExampleParsed
    \/ HandleReset
    \/ ToggleTheme

SpecApp == AppInit /\ [][AppNext]_vars

(***************************************************************************)
(* Two parseParquetFileStreaming calls on different files.  JavaScript     *)
(* runs one continuation at a time: the call whose continuation runs has   *)
(* its locals in the variables of the decode, the other call is suspended  *)
(* at an await with its locals in peer.  Switch hands over at a suspension *)
(* point, so the two calls interleave in every possible way.               *)
(***************************************************************************)
PairFiles ==
    {LaidOutFile("near", 1, 1, NoDefect),
     LaidOutFile("far", 2, 1, NoDefect),
     LaidOutFile("far", 1, 2, NoDefect),
     LaidOutFile("near", 1, 2, [kind |-> "trunc", rg |-> 1, col |-> 1, k |-> 1]),
     EnvelopeFile(12, BadMagic, <<0, 0, 0, 0>>, PARQUET_MAGIC, TRUE),
     EnvelopeFile(20, PARQUET_MAGIC, <<12, 0, 0, 0>>, PARQUET_MAGIC, FALSE),
     EnvelopeFile(13, PARQUET_MAGIC, <<5, 0, 0, 0>>, PARQUET_MAGIC, TRUE)}

\* The locals of the running call, as they are kept while it is suspended.
Suspended ==
    [file |-> file, pc |-> pc, error |-> error, footerLength |-> footerLength,
     footerStart |-> footerStart, footerRead |-> footerRead,
     fileMetaData |-> fileMetaData, batches |-> batches, batchIdx |-> batchIdx,
     indexes |-> indexes, reads |-> reads, decodes |-> decodes]

\* The footer length kept in one place for both calls: the resumed call finds
\* the other call's value.
ResumedSharingLength == [peer EXCEPT !.footerLength = footerLength]

\* The locals the suspended call finds when it is resumed: its own
\* (parquetParser.js lines 67-116 and 178-279 declare every one of them with
\* const or let inside the call; the reader of lines 102 and 265 is new in
\* every decode).
Resumed == peer

PairInit ==
    /\ \E f \in PairFiles, g \in PairFiles :
          /\ f # g
          /\ file = f
          /\ peer = [PeerIdle EXCEPT !.file = g, !.pc = "start"]
    /\ StreamInit
    /\ sched = SchedIdle
    /\ thrift = ThriftIdle
    /\ stats = StatsIdle
    /\ app = AppIdle

\* The running call is suspended (or has not started, or has ended) and the
\* other one runs next.
Switch ==
    /\ peer.pc # "idle"
    /\ peer' = Suspended
    /\ file' = Resumed.file
    /\ pc' = Resumed.pc
    /\ error' = Resumed.error
    /\ footerLength' = Resumed.footerLength
    /\ footerStart' = Resumed.footerStart
    /\ footerRead' = Resumed.footerRead
    /\ fileMetaData' = Resumed.fileMetaData
    /\ batches' = Resumed.batches
    /\ batchIdx' = Resumed.batchIdx
    /\ indexes' = Resumed.indexes
    /\ reads' = Resumed.reads
    /\ decodes' = Resumed.decodes
    /\ UNCHANGED <<legacy, sched, thrift, stats, app>>

PairNext ==
    \/ StreamStart
    \/ StreamHeader
    \/ StreamTrailer
    \/ StreamFooter
    \/ StreamBatch
    \/ Switch

SpecPair == PairInit /\ [][PairNext]_vars

(***************************************************************************)
(* What the claims speak of, stated on the file and the logs and not by    *)
(* the decoder's own operators.                                            *)
(***************************************************************************)
\* The file's bytes [from, from + len).
FileBytes(f, from, len) == [i \in 1..len |-> ByteAt(f, from + i - 1)]

HeadOK(f) == FileBytes(f, 0, 4) = PARQUET_MAGIC

TailOK(f) == FileBytes(f, f.size - 4, 4) = PARQUET_MAGIC

\* The little-endian 32-bit length field at [size - 8, size - 4).
LenField(f) ==
    ByteAt(f, f.size - 8) + 256 * (ByteAt(f, f.size - 7)
        + 256 * (ByteAt(f, f.size - 6) + 256 * ByteAt(f, f.size - 5)))

SlotValue(ix, rg, col, type) ==
    IF type = "columnIndex" THEN ix[rg][col].columnIndex ELSE ix[rg][col].offsetIndex

\* The slots (row group, column, kind) of a file's metadata.
SlotsOf(meta) ==
    {<<rg, col, type>> \in (1..Len(meta)) \X (1..MaxCols + 1) \X {"columnIndex", "offsetIndex"} :
        col <= Len(meta[rg])}

ReadThrew == error \in {"read header", "read trailer", "read footer", "read batch"}

StreamEnded == pc \in {"done", "failed"}

\* The requests of the batches whose read has returned.
ProcessedBatches ==
    IF pc = "done" THEN 1..Len(batches)
    ELSE IF pc \in {"awaitBatch", "failed"} /\ batchIdx >= 1 THEN 1..(batchIdx - 1)
    ELSE {}

\* The same file with no defect in its footer.
IntactOf(f) ==
    [f EXCEPT !.meta = MetaOf(f.layout, Len(f.meta), Len(f.meta[1]), NoDefect),
              !.defect = NoDefect]

\* parsePageIndexesStreaming run to its end with every read returning.
RECURSIVE RunBatches(_, _, _)
RunBatches(f, acc, bs) ==
    IF bs = <<>> THEN acc
    ELSE RunBatches(f, ProcessBatch(f, acc, Head(bs), BlobSlice(f, Head(bs).start, Head(bs).end)),
                    Tail(bs))

StreamingIndexesOf(f) ==
    RunBatches(f, [indexes |-> InitIndexes(f.meta), decodes |-> <<>>],
               PlanBatches(f.meta)).indexes

DefectSlot(f) ==
    <<f.defect.rg, f.defect.col, Kinds[f.defect.k]>>

\* C1's statement about one entry point's pageIndexes ix, intact being what
\* the same entry point returns for the file without the truncation.
TruncatedSlotAlone(f, ix, intact) ==
    \A sl \in SlotsOf(f.meta) :
        IF sl = DefectSlot(f)
        THEN SlotValue(ix, sl[1], sl[2], sl[3]) = NullSlot
        ELSE SlotValue(ix, sl[1], sl[2], sl[3]) = SlotValue(intact, sl[1], sl[2], sl[3])

\* C1: in both entry points a column chunk's index whose bytes are truncated
\* mid-struct does not stop the decode: the call returns, that slot alone is
\* null, and every other slot holds what it holds for the intact file.
C1_TruncatedIndexIsolated ==
    file.defect.kind = "trunc" =>
        /\ (StreamEnded /\ ~ReadThrew) =>
              /\ pc = "done"
              /\ TruncatedSlotAlone(file, indexes, StreamingIndexesOf(IntactOf(file)))
        /\ legacy.pc # "start" =>
              /\ legacy.pc = "done"
              /\ TruncatedSlotAlone(file, legacy.pageIndexes,
                                    parseParquetFile(IntactOf(file)).pageIndexes)

\* The streaming half of C1 alone.
StreamingIsolatesTruncation ==
    (file.defect.kind = "trunc" /\ StreamEnded /\ ~ReadThrew) =>
        /\ pc = "done"
        /\ TruncatedSlotAlone(file, indexes, StreamingIndexesOf(IntactOf(file)))

\* C2: in parseParquetFileStreaming a failed read of one index batch is
\* isolated to that batch: the call still returns, the slots of the other
\* batches are populated as usual and the failed batch's slots stay null.
C2_BatchReadFailureIsolated ==
    (StreamEnded /\ error = "read batch") =>
        /\ pc = "done"
        /\ \A b \in 1..Len(batches) :
             \A i \in 1..Len(batches[b].requests) :
                LET req == batches[b].requests[i]
                IN SlotValue(indexes, req.rgIdx, req.colIdx, req.type) =
                      IF b = batchIdx THEN NullSlot
                      ELSE SlotValue(StreamingIndexesOf(file), req.rgIdx, req.colIdx, req.type)

\* C3: for a file of size F >= 12 with both magic markers and a length field
\* len <= F - 8, both entry points report footerStart = F - 8 - len and decode
\* the footer from exactly the bytes [F - 8 - len, F - 8).
C3_FooterLocation ==
    LET F == file.size
        len == LenField(file)
        range == [lo |-> F - 8 - len, hi |-> F - 8]
    IN (F >= 12 /\ HeadOK(file) /\ TailOK(file) /\ len <= F - 8) =>
          /\ footerLength \in {-1, len}
          /\ footerStart \in {-1, F - 8 - len}
          /\ pc \in {"awaitFooter", "awaitBatch", "done"} =>
                (footerLength = len /\ footerStart = F - 8 - len)
          /\ \A i \in 1..Len(reads) :
                reads[i].what = "footer" =>
                    (reads[i].start = F - 8 - len /\ reads[i].end = F - 8)
          /\ \A i \in 1..Len(footerRead) : footerRead[i] = range
          /\ pc \in {"awaitBatch", "done"} => footerRead = <<range>>
          /\ pc = "done" =>
                (StreamResult.footerStart = F - 8 - len /\ StreamResult.footerLength = len)
          /\ legacy.pc = "done" =>
                /\ legacy.footerStart = F - 8 - len
                /\ legacy.footerLength = len
                /\ legacy.footerRead = <<range>>
          /\ legacy.pc = "failed" =>
                (legacy.error = "footer decode" /\ legacy.footerRead = <<range>>)

C3_Witness ==
    /\ pc = "done"
    /\ legacy.pc = "done"
    /\ LenField(file) > 256
    /\ footerStart = file.size - 8 - LenField(file)
    /\ legacy.footerStart = footerStart

\* C4: both entry points fail, returning nothing and decoding no footer
\* byte, whenever the first four bytes or the last four bytes differ from
\* the magic marker or the length field exceeds fileSize - 8.
C4_InvalidFormatFails ==
    (~HeadOK(file) \/ ~TailOK(file) \/ LenField(file) > file.size - 8) =>
        /\ pc \in {"start", "awaitHeader", "awaitTrailer", "failed"}
        /\ ~HeadOK(file) => pc # "awaitTrailer"
        /\ footerRead = <<>>
        /\ \A i \in 1..Len(reads) : reads[i].what \in {"header", "trailer"}
        /\ indexes = <<>>
        /\ decodes = <<>>
        /\ legacy.pc \in {"start", "failed"}
        /\ legacy.footerRead = <<>>
        /\ legacy.pageIndexes = <<>>
        /\ legacy.decodes = <<>>

C4_Witness ==
    /\ file.size >= 12
    /\ HeadOK(file)
    /\ TailOK(file)
    /\ LenField(file) = file.size - 7
    /\ pc = "failed"
    /\ error = "footer length"
    /\ legacy.pc = "failed"

\* C5: every byte-range read parseParquetFileStreaming issues, the index
\* batch reads included, lies inside the file: 0 <= start <= end <= fileSize.
C5_ReadsInsideFile ==
    \A i \in 1..Len(reads) :
        /\ 0 <= reads[i].start
        /\ reads[i].start <= reads[i].end
        /\ reads[i].end <= file.size

(***************************************************************************)
(* C6.  The batches of a request list, said without the loop: the sorted   *)
(* list is cut into consecutive runs; a request opens a run exactly when   *)
(* its offset exceeds the running end of the run before it plus the gap.   *)
(***************************************************************************)
IsSortedStable(sorted, reqs) ==
    /\ Len(sorted) = Len(reqs)
    /\ \A i \in 1..Len(reqs) : \E j \in 1..Len(sorted) : sorted[j] = reqs[i]
    /\ \A i, j \in 1..Len(sorted) :
          i < j => /\ sorted[i].offset <= sorted[j].offset
                   /\ (sorted[i].offset = sorted[j].offset =>
                          sorted[i].colIdx < sorted[j].colIdx)

\* The largest end among requests i..j of a sequence.
RECURSIVE MaxEnd(_, _, _)
MaxEnd(sq, i, j) ==
    IF i = j THEN sq[i].offset + sq[i].length
    ELSE Max(MaxEnd(sq, i, j - 1), sq[j].offset + sq[j].length)

Flatten(bs) ==
    LET RECURSIVE Cat(_)
        Cat(i) == IF i > Len(bs) THEN <<>> ELSE bs[i].requests \o Cat(i + 1)
    IN Cat(1)

BatchesAsSpecified(bs, sorted, gap) ==
    /\ Flatten(bs) = sorted
    /\ \A b \in 1..Len(bs) :
          LET rs == bs[b].requests
          IN /\ Len(rs) >= 1
             /\ bs[b].start = rs[1].offset
             /\ bs[b].end = MaxEnd(rs, 1, Len(rs))
             /\ \A i \in 2..Len(rs) : rs[i].offset <= MaxEnd(rs, 1, i - 1) + gap
             /\ b > 1 => rs[1].offset > bs[b - 1].end + gap

ExampleRequests ==
    <<Request(1, 1, "columnIndex", 100, 50),
      Request(1, 2, "columnIndex", 200, 50),
      Request(1, 3, "columnIndex", 10000, 50)>>

Ranges(bs) == [b \in 1..Len(bs) |-> <<bs[b].start, bs[b].end>>]

Planned == pc \in {"awaitBatch", "done"} \/ (pc = "failed" /\ error = "read batch")

\* The positions <<b, i>> of the requests in a batch list.
RequestPositions(bs) ==
    {<<b, i>> \in (1..Len(bs)) \X (1..(4 * MaxRowGroups * MaxCols + 8)) :
        i <= Len(bs[b].requests)}

SameSlot(x, y) == x.rgIdx = y.rgIdx /\ x.colIdx = y.colIdx /\ x.type = y.type

\* The read of a batch returns the whole range when the range lies in the file.
WholeRange(f, batch) ==
    0 <= batch.start /\ batch.start <= batch.end /\ batch.end <= f.size

\* C7: a request with non-negative offset and positive length lies inside
\* its batch, and the slice cut for it out of the batch buffer is the file's
\* bytes [offset, offset + length) when the read returned the whole batch.
C7_SliceReproducesRange ==
    Planned =>
        \A p \in RequestPositions(batches) :
            LET batch == batches[p[1]]
                req == batch.requests[p[2]]
            IN (req.offset >= 0 /\ req.length > 0) =>
                  /\ batch.start <= req.offset
                  /\ req.offset + req.length <= batch.end
                  /\ (p[1] \in ProcessedBatches /\ WholeRange(file, batch)) =>
                        \E i \in 1..Len(decodes) :
                            /\ SameSlot(decodes[i], req)
                            /\ decodes[i].bytes = FileBytes(file, req.offset, req.length)

C7_Witness ==
    /\ pc = "done"
    /\ Len(batches) = 2
    /\ \E p \in RequestPositions(batches) :
          /\ p[1] = 2
          /\ p[2] > 1
          /\ WholeRange(file, batches[2])
          /\ batches[2].requests[p[2]].length > 0
          /\ \E i \in 1..Len(decodes) :
                /\ SameSlot(decodes[i], batches[2].requests[p[2]])
                /\ ~decodes[i].err
                /\ decodes[i].bytes = FileBytes(file, batches[2].requests[p[2]].offset,
                                                batches[2].requests[p[2]].length)

BatchReads == SelectSeq(reads, LAMBDA rd : rd.what = "batch")

\* C8: parsePageIndexesStreaming issues exactly one read per batch, covering
\* [batch.start, batch.end): as many index reads as batches, every request
\* in exactly one batch, no range read twice or retried.
C8_OneReadPerBatch ==
    StreamEnded =>
        /\ Len(BatchReads) = Len(batches)
        /\ \A b \in 1..Len(BatchReads) : BatchReads[b] = BatchRead(batches[b])
        /\ \A i, j \in 1..Len(BatchReads) : BatchReads[i] = BatchReads[j] => i = j
        /\ Flatten(batches) = SortByOffset(CollectRequests(fileMetaData, 1))

\* One read per batch, for the calls that return.
OneReadPerBatchWhenReturned ==
    pc = "done" =>
        /\ Len(BatchReads) = Len(batches)
        /\ \A b \in 1..Len(BatchReads) : BatchReads[b] = BatchRead(batches[b])
        /\ \A i, j \in 1..Len(BatchReads) : BatchReads[i] = BatchReads[j] => i = j
        /\ Flatten(batches) = SortByOffset(CollectRequests(fileMetaData, 1))

Allocated(ix, meta) ==
    /\ DOMAIN ix = 1..Len(meta)
    /\ \A rg \in 1..Len(meta) :
          /\ DOMAIN ix[rg] = 1..Len(meta[rg])
          /\ \A col \in 1..Len(meta[rg]) :
                DOMAIN ix[rg][col] = {"columnIndex", "offsetIndex"}

\* C9: the slots are allocated before the first index read, a request writes
\* only the slot it was created for, no two requests target the same slot,
\* and so the returned pageIndexes is the same in whatever order the batches
\* are completed.
C9_DisjointSlots ==
    Planned =>
        /\ Allocated(indexes, fileMetaData)
        /\ \A p, q \in RequestPositions(batches) :
              SameSlot(batches[p[1]].requests[p[2]], batches[q[1]].requests[q[2]]) => p = q
        /\ \A sl \in SlotsOf(fileMetaData) :
              SlotValue(indexes, sl[1], sl[2], sl[3]) # NullSlot =>
                  \E p \in RequestPositions(batches) :
                      LET req == batches[p[1]].requests[p[2]]
                      IN /\ p[1] \in ProcessedBatches
                         /\ <<req.rgIdx, req.colIdx, req.type>> = sl
                         /\ \E i \in 1..Len(decodes) :
                               /\ SameSlot(decodes[i], req)
                               /\ ~decodes[i].err
                               /\ SlotValue(indexes, sl[1], sl[2], sl[3]) =
                                     Decoded(IndexRead(NewReader(decodes[i].bytes)).fields)
        /\ pc = "done" =>
              indexes = RunBatches(file, [indexes |-> InitIndexes(fileMetaData),
                                          decodes |-> <<>>], Reverse(batches)).indexes

C9_Witness ==
    /\ pc = "done"
    /\ Len(batches) = 2
    /\ \A sl \in SlotsOf(fileMetaData) : SlotValue(indexes, sl[1], sl[2], sl[3]) # NullSlot
    /\ Cardinality(SlotsOf(fileMetaData)) >= 4

Present(x) == x # None

Carries(columnChunk, type) ==
    IF type = "columnIndex"
    THEN Present(columnChunk.column_index_offset) /\ Present(columnChunk.column_index_length)
    ELSE Present(columnChunk.offset_index_offset) /\ Present(columnChunk.offset_index_length)

DecodeSucceeded(sl) ==
    \E i \in 1..Len(decodes) :
        /\ <<decodes[i].rgIdx, decodes[i].colIdx, decodes[i].type>> = sl
        /\ ~decodes[i].err

\* C10: the returned pageIndexes has one entry per row group and in it one
\* entry per column chunk, in order; a columnIndex (offsetIndex) is non-null
\* exactly when the column chunk carries that index's offset and length and
\* the decode of its bytes succeeded.
C10_PageIndexesShape ==
    pc = "done" =>
        /\ Len(indexes) = Len(fileMetaData)
        /\ \A rg \in 1..Len(fileMetaData) : Len(indexes[rg]) = Len(fileMetaData[rg])
        /\ \A sl \in SlotsOf(fileMetaData) :
              /\ SlotValue(indexes, sl[1], sl[2], sl[3]) # NullSlot
                    <=> (Carries(fileMetaData[sl[1]][sl[2]], sl[3]) /\ DecodeSucceeded(sl))
              /\ SlotValue(indexes, sl[1], sl[2], sl[3]).tag \in {"null", "object"}

C10_Witness ==
    /\ pc = "done"
    /\ file.defect.kind = "trunc"
    /\ SlotValue(indexes, file.defect.rg, file.defect.col, Kinds[file.defect.k]) = NullSlot
    /\ \E sl \in SlotsOf(fileMetaData) : SlotValue(indexes, sl[1], sl[2], sl[3]).tag = "object"
    /\ \E i \in 1..Len(decodes) : decodes[i].err

(***************************************************************************)
(* C11 - C20: the reader, stated on the buffer of the latest call.         *)
(***************************************************************************)
LastCall == thrift.last

\* The byte a reader is about to read, and the bytes left to it.
NextByte(r) == r.buffer[r.offset + 1]

Remaining(r) == Len(r.buffer) - r.offset

TopId(r) == r.lastFieldId[Len(r.lastFieldId)]

RECURSIVE Pow128(_)
Pow128(i) == IF i = 0 THEN 1 ELSE 128 * Pow128(i - 1)

\* The position behind the first byte at or after offset off (0-based) whose
\* high bit is clear; 0 when there is none.
VarintEnd(buf, off) ==
    LET ends == {i \in (off + 1)..Len(buf) : buf[i] < 128}
    IN IF ends = {} THEN 0 ELSE CHOOSE i \in ends : \A j \in ends : i <= j

\* The sum of (byte & 0x7f) * 128^i over the bytes at positions off .. end - 1.
RECURSIVE VarintSum(_, _, _)
VarintSum(buf, off, end) ==
    IF end <= off THEN 0
    ELSE VarintSum(buf, off, end - 1) + (buf[end] % 128) * Pow128(end - 1 - off)

\* A reader stopped where the buffer cannot serve the read: fewer than the
\* eight bytes of a double are left, or a length varint ending here asks for
\* more bytes than are left.
Exhausted(r) ==
    \/ Remaining(r) < 8
    \/ \E from \in 0..(r.offset - 1) :
          /\ VarintEnd(r.buffer, from) = r.offset
          /\ VarintSum(r.buffer, from, r.offset) > Remaining(r)

\* The reader stands right behind a field header whose type is type.
BehindFieldHeader(r, type) ==
    \E at \in 0..(r.offset - 1) :
        LET header == readFieldBegin([r EXCEPT !.offset = at])
        IN /\ ~header.err
           /\ header.r.offset = r.offset
           /\ header.ftype = type

\* C11: a field the decoder does not recognise never aborts a decode: for
\* every field header readFieldBegin can return (type nibble 1..15),
\* skip(ftype) raises only when the buffer is exhausted.
C11_UnknownFieldSkipped ==
    (/\ LastCall.op = "skip"
     /\ LastCall.arg \in 1..15
     /\ BehindFieldHeader(LastCall.before, LastCall.arg)
     /\ LastCall.out.err)
        => Exhausted(LastCall.out.r)

\* Skipping a scalar type the reader knows raises only on an exhausted buffer.
ScalarTypesSkipped ==
    (LastCall.op = "skip" /\ LastCall.arg \in 0..8 /\ LastCall.out.err)
        => Exhausted(LastCall.out.r)

\* The type tag a header's low nibble stands for: both boolean nibbles give
\* the boolean tag.
TagOfNibble(n) == IF n = 1 THEN 2 ELSE n

\* The signed value of a zig-zag encoded n.
SignedOf(n) == IF n % 2 = 0 THEN n \div 2 ELSE -((n + 1) \div 2)

WithTop(stack, id) == [i \in 1..Len(stack) |-> IF i = Len(stack) THEN id ELSE stack[i]]

\* What a field header at the reader's position says: its field id and type.
HeaderRead(call, fid, next) ==
    /\ ~call.out.err
    /\ call.out.fid = fid
    /\ call.out.ftype = TagOfNibble(NextByte(call.before) % 16)
    /\ call.out.r.offset = next
    /\ call.out.r.lastFieldId = WithTop(call.before.lastFieldId, fid)

\* C12: readFieldBegin reads one byte; zero yields Stop and leaves the
\* field-id stack unchanged; otherwise the low nibble is the type tag and the
\* high nibble the delta: delta 0 makes the id the zig-zag varint that
\* follows, a non-zero delta makes it the current depth's last id plus the
\* delta, and the top of the stack becomes the new id.  Header 0x15 after
\* field id 3 yields field id 4 with the int32 tag.
C12_FieldHeader ==
    LastCall.op = "readFieldBegin" =>
        LET b == LastCall.before
            out == LastCall.out
            idEnd == VarintEnd(b.buffer, b.offset + 1)
        IN IF Remaining(b) = 0 THEN out.err
           ELSE IF NextByte(b) = 0
                THEN /\ ~out.err
                     /\ out.ftype = T_STOP
                     /\ out.r.offset = b.offset + 1
                     /\ out.r.lastFieldId = b.lastFieldId
           ELSE IF NextByte(b) \div 16 # 0
                THEN /\ HeaderRead(LastCall, TopId(b) + (NextByte(b) \div 16), b.offset + 1)
                     /\ (NextByte(b) = 21 /\ TopId(b) = 3) => (out.fid = 4 /\ out.ftype = T_I32)
           ELSE IF idEnd = 0 THEN out.err
           ELSE HeaderRead(LastCall, SignedOf(VarintSum(b.buffer, b.offset + 1, idEnd)), idEnd)

C12_Witness ==
    /\ LastCall.op = "readFieldBegin"
    /\ LastCall.before.offset > 0
    /\ Remaining(LastCall.before) > 0
    /\ NextByte(LastCall.before) = 21
    /\ TopId(LastCall.before) = 3
    /\ LastCall.out.fid = 4
    /\ LastCall.out.ftype = T_I32
    /\ TopId(LastCall.out.r) = 4

AllButLast(stack) == SubSeq(stack, 1, Len(stack) - 1)

\* C13: readStructBegin pushes 0 on the field-id stack and readStructEnd
\* pops it, no call touches the ids below the top, and after a nested struct
\* has been skipped the stack is what it was before the struct was entered,
\* so the next short-form header of the enclosing struct is resolved against
\* the enclosing struct's own last field id.
C13_StructNesting ==
    LET b == LastCall.before
        out == LastCall.out
    IN /\ LastCall.op = "readStructBegin" =>
             (out.r.lastFieldId = Append(b.lastFieldId, 0) /\ out.r.offset = b.offset)
       /\ LastCall.op = "readStructEnd" =>
             (out.r.lastFieldId = AllButLast(b.lastFieldId) /\ out.r.offset = b.offset)
       /\ (LastCall.op \notin {"none", "readStructBegin", "readStructEnd"} /\ ~out.err) =>
             /\ Len(out.r.lastFieldId) = Len(b.lastFieldId)
             /\ AllButLast(out.r.lastFieldId) = AllButLast(b.lastFieldId)
             /\ LastCall.op # "readFieldBegin" => out.r.lastFieldId = b.lastFieldId
       /\ (/\ LastCall.op = "skip"
           /\ LastCall.arg = T_STRUCT
           /\ ~out.err
           /\ Remaining(out.r) > 0
           /\ NextByte(out.r) \div 16 # 0)
             => readFieldBegin(out.r).fid = TopId(b) + (NextByte(out.r) \div 16)

\* The struct of field 1 holds field 3; the header behind it is field 2.
C13_Witness ==
    /\ LastCall.op = "skip"
    /\ LastCall.arg = T_STRUCT
    /\ ~LastCall.out.err
    /\ LastCall.before.buffer = <<28, 53, 2, 0, 21, 2>>
    /\ LastCall.before.offset = 1
    /\ TopId(LastCall.before) = 1
    /\ LastCall.out.r.offset = 4
    /\ readFieldBegin(LastCall.out.r).fid = 2

\* C14: after readFieldBegin returned a boolean-true (boolean-false) header
\* the next readBool returns true (false), leaves the cursor where it is and
\* empties the pending-boolean slot; a readBool with an empty slot reads
\* exactly one byte.
C14_PendingBoolean ==
    LET b == LastCall.before
        out == LastCall.out
    IN /\ (/\ LastCall.op = "readFieldBegin"
           /\ ~out.err
           /\ NextByte(b) # 0
           /\ NextByte(b) % 16 \in {CT_BOOL_TRUE, CT_BOOL_FALSE})
             => /\ out.r.boolValue = IF NextByte(b) % 16 = CT_BOOL_TRUE THEN "true" ELSE "false"
                /\ ~readBool(out.r).err
                /\ readBool(out.r).value = (NextByte(b) % 16 = CT_BOOL_TRUE)
                /\ readBool(out.r).r.offset = out.r.offset
                /\ readBool(out.r).r.boolValue = "null"
       /\ (LastCall.op = "readBool" /\ b.boolValue # "null")
             => /\ ~out.err
                /\ out.value = (b.boolValue = "true")
                /\ out.r.offset = b.offset
                /\ out.r.boolValue = "null"
       /\ (LastCall.op = "readBool" /\ b.boolValue = "null")
             => IF Remaining(b) = 0 THEN out.err
                ELSE /\ ~out.err
                     /\ out.r.offset = b.offset + 1
                     /\ out.value = (NextByte(b) = 1)
                     /\ out.r.boolValue = "null"

C14_Witness ==
    /\ LastCall.op = "readBool"
    /\ LastCall.before.buffer = <<18, 0>>
    /\ LastCall.before.offset = 1
    /\ LastCall.before.boolValue = "false"
    /\ LastCall.out.value = FALSE
    /\ LastCall.out.r.offset = 1
    /\ LastCall.out.r.boolValue = "null"

\* The unsigned LEB128 encoding of n.
RECURSIVE Leb128(_)
Leb128(n) == IF n < 128 THEN <<n>> ELSE <<128 + (n % 128)>> \o Leb128(n \div 128)

VarintSamples == {0, 1, 2, 127, 128, 300, 16383, 16384, 65535, 65536}

\* The bytes enc stand in buf from offset off (0-based) on.
StandsAt(buf, off, enc) ==
    /\ off + Len(enc) <= Len(buf)
    /\ \A i \in 1..Len(enc) : buf[off + i] = enc[i]

\* C15: readVarint returns the sum of (byte & 0x7f) * 128^i over the bytes it
\* consumes and stops behind the first byte whose high bit is clear, so the
\* LEB128 encoding of n decodes to n and exactly its bytes are consumed; it
\* raises when the buffer ends before such a byte.
C15_Varint ==
    LastCall.op = "readVarint" =>
        LET b == LastCall.before
            out == LastCall.out
            end == VarintEnd(b.buffer, b.offset)
        IN IF end = 0 THEN out.err
           ELSE /\ ~out.err
                /\ out.value = VarintSum(b.buffer, b.offset, end)
                /\ out.r.offset = end
                /\ \A n \in VarintSamples :
                      StandsAt(b.buffer, b.offset, Leb128(n)) =>
                          (out.value = n /\ out.r.offset = b.offset + Len(Leb128(n)))

C15_Witness ==
    /\ LastCall.op = "readVarint"
    /\ StandsAt(LastCall.before.buffer, LastCall.before.offset, Leb128(65536))
    /\ LastCall.out.value = 65536
    /\ LastCall.out.r.offset = LastCall.before.offset + 3

\* The zig-zag encoding of the signed k.
ZigZagEncode(k) == IF k >= 0 THEN 2 * k ELSE -2 * k - 1

\* C16: readZigZag maps the decoded varint n to (n >> 1) ^ -(n & 1): raw 0,
\* 1, 2, 3, 4 decode to 0, -1, 1, -2, 2, and the zig-zag encoding of every k
\* decodes to k.
C16_ZigZag ==
    LastCall.op = "readZigZag" =>
        LET b == LastCall.before
            out == LastCall.out
            end == VarintEnd(b.buffer, b.offset)
            raw == VarintSum(b.buffer, b.offset, end)
        IN IF end = 0 THEN out.err
           ELSE /\ ~out.err
                /\ out.r.offset = end
                /\ ZigZagEncode(out.value) = raw
                /\ \A k \in -2048..2048 : raw = ZigZagEncode(k) => out.value = k
                /\ raw \in 0..4 => out.value = <<0, -1, 1, -2, 2>>[raw + 1]

C16_Witness ==
    /\ LastCall.op = "readZigZag"
    /\ LastCall.before.buffer = <<3>>
    /\ ~LastCall.out.err
    /\ LastCall.out.value = -2

\* The width in bits of the integer a read method is for.
TargetWidth(op) ==
    CASE op = "readI16" -> 16
      [] op = "readI32" -> 32
      [] op = "readI64" -> 64

\* v fits a signed integer of the given width (every value of this model
\* fits 32 and 64 bits).
FitsWidth(v, width) == width = 16 => (-32768 <= v /\ v <= 32767)

\* C17: a decoded integer that overflows the width of the field being read
\* (16, 32, 64 bits for readI16, readI32, readI64) is reported as a decode
\* error and never returned as a value.
C17_OverflowIsError ==
    (LastCall.op \in {"readI16", "readI32", "readI64"} /\ ~LastCall.out.err)
        => FitsWidth(LastCall.out.value, TargetWidth(LastCall.op))

\* C18: readBinary reads a varint length L and returns exactly the next L
\* bytes, advancing the cursor by L; it raises, returning no bytes and
\* reading nothing past the end of the buffer, when fewer than L bytes remain.
C18_Binary ==
    LastCall.op = "readBinary" =>
        LET b == LastCall.before
            out == LastCall.out
            end == VarintEnd(b.buffer, b.offset)
            L == VarintSum(b.buffer, b.offset, end)
        IN IF end = 0 THEN out.err
           ELSE IF L > Len(b.buffer) - end
                THEN /\ out.err
                     /\ out.value = <<>>
                     /\ out.r.offset <= Len(b.buffer)
           ELSE /\ ~out.err
                /\ Len(out.value) = L
                /\ \A i \in 1..L : out.value[i] = b.buffer[end + i]
                /\ out.r.offset = end + L

C18_Witness ==
    /\ LastCall.op = "readBinary"
    /\ LastCall.before.buffer = <<24, 3, 97, 98, 99>>
    /\ LastCall.before.offset = 1
    /\ LastCall.out.value = <<97, 98, 99>>
    /\ LastCall.out.r.offset = 5

\* C19: readMapBegin reads the count as a varint first; a zero count reads
\* no further byte and reports both types as STOP; otherwise exactly one
\* more byte is read, key type in its high nibble, value type in its low one.
C19_MapHeader ==
    LastCall.op = "readMapBegin" =>
        LET b == LastCall.before
            out == LastCall.out
            end == VarintEnd(b.buffer, b.offset)
            count == VarintSum(b.buffer, b.offset, end)
        IN IF end = 0 THEN out.err
           ELSE IF count = 0
                THEN /\ ~out.err
                     /\ out.size = 0
                     /\ out.ktype = T_STOP
                     /\ out.vtype = T_STOP
                     /\ out.r.offset = end
           ELSE IF end >= Len(b.buffer) THEN out.err
           ELSE /\ ~out.err
                /\ out.size = count
                /\ out.ktype = TagOfNibble(b.buffer[end + 1] \div 16)
                /\ out.vtype = TagOfNibble(b.buffer[end + 1] % 16)
                /\ out.r.offset = end + 1

C19_Witness ==
    /\ LastCall.op = "readMapBegin"
    /\ LastCall.before.buffer = <<2, 88, 1, 2, 3>>
    /\ LastCall.before.offset = 0
    /\ LastCall.out.size = 2
    /\ LastCall.out.ktype = T_I32
    /\ LastCall.out.vtype = T_STRING
    /\ LastCall.out.r.offset = 2

\* C20: readListBegin and readSetBegin read one header byte, element type in
\* its low nibble and the count in its high nibble when that is 0..14; a high
\* nibble of 15 means the count is the varint that follows, so collections
\* of 15 or more elements report their true count.
C20_ListHeader ==
    LastCall.op \in {"readListBegin", "readSetBegin"} =>
        LET b == LastCall.before
            out == LastCall.out
            end == VarintEnd(b.buffer, b.offset + 1)
        IN IF Remaining(b) = 0 THEN out.err
           ELSE IF NextByte(b) \div 16 # 15
                THEN /\ ~out.err
                     /\ out.size = NextByte(b) \div 16
                     /\ out.etype = TagOfNibble(NextByte(b) % 16)
                     /\ out.r.offset = b.offset + 1
           ELSE IF end = 0 THEN out.err
           ELSE /\ ~out.err
                /\ out.size = VarintSum(b.buffer, b.offset + 1, end)
                /\ out.etype = TagOfNibble(NextByte(b) % 16)
                /\ out.r.offset = end

C20_Witness ==
    /\ LastCall.op = "readSetBegin"
    /\ LastCall.before.buffer = <<245, 172, 2>>
    /\ LastCall.before.offset = 0
    /\ LastCall.out.size = 300
    /\ LastCall.out.etype = T_I32
    /\ LastCall.out.r.offset = 3

(***************************************************************************)
(* The statistics formatter.                                               *)
(***************************************************************************)
\* A formatStatValue call has returned or thrown.
Formatted == stats.pc = "done" /\ stats.op = "formatStatValue"

\* The value of a hexadecimal digit, 16 for any other character.
HexValue(c) ==
    IF \E d \in 1..16 : HexChars[d] = c
    THEN (CHOOSE d \in 1..16 : HexChars[d] = c) - 1
    ELSE 16

\* text spells out the bytes, two lower-case digits each, one space between.
SpellsBytes(text, bytes) ==
    /\ Len(text) = IF bytes = <<>> THEN 0 ELSE 3 * Len(bytes) - 1
    /\ \A i \in 1..Len(bytes) :
          /\ HexValue(text[3 * i - 2]) < 16
          /\ HexValue(text[3 * i - 1]) < 16
          /\ 16 * HexValue(text[3 * i - 2]) + HexValue(text[3 * i - 1]) = bytes[i]
          /\ i < Len(bytes) => text[3 * i] = " "

\* text is a hex rendering of the value: its first bytes, at most sixteen,
\* with an ellipsis behind them when bytes were left out.
HexRendering(text, value) ==
    \E n \in {Len(value), Min(12, Len(value)), Min(16, Len(value))} :
        \/ SpellsBytes(text, SubSeq(value, 1, n))
        \/ /\ Len(value) > 16
           /\ Len(text) >= 3
           /\ SubSeq(text, Len(text) - 2, Len(text)) = Ellipsis
           /\ SpellsBytes(SubSeq(text, 1, Len(text) - 3), SubSeq(value, 1, n))

TypedForms == {"boolean", "date", "time", "timestamp", "decimal", "number", "float",
               "uuid", "text"}

\* C21: formatStatValue never raises: for every byte string, physical type and
\* logical type (and for a missing value or column) it returns a string that
\* is a typed rendering, the 'N/A' sentinel or a hex rendering of the bytes.
C21_NeverRaises ==
    Formatted =>
        /\ ~stats.out.threw
        /\ \/ stats.out.form \in TypedForms
           \/ stats.out.form = "N/A" /\ stats.out.text = NotAvailable
           \/ /\ stats.out.form = "hex"
              /\ stats.value # None
              /\ HexRendering(stats.out.text, stats.value[1])

\* A byte array that is not text has been rendered as hex.
C21_Witness ==
    /\ Formatted
    /\ stats.value = Some(<<255, 128>>)
    /\ stats.physicalType = "BYTE_ARRAY"
    /\ stats.logicalInfo.type = "STRING"
    /\ stats.out.form = "hex"
    /\ stats.out.text = <<"f", "f", " ", "8", "0">>

\* The width in bytes of a fixed-width physical type, 0 for the other types.
FixedWidth(physicalType) ==
    CASE physicalType = "BOOLEAN" -> 1
      [] physicalType \in {"INT32", "FLOAT"} -> 4
      [] physicalType \in {"INT64", "DOUBLE"} -> 8
      [] OTHER -> 0

\* A formatStatValue call on a value shorter than its fixed-width type.
ShortValue ==
    /\ Formatted
    /\ stats.value # None
    /\ stats.columnMeta
    /\ Len(stats.value[1]) < FixedWidth(stats.physicalType)

\* C22: for every fixed-width physical type (BOOLEAN 1 byte, INT32 and FLOAT
\* 4 bytes, INT64 and DOUBLE 8 bytes), formatStatValue given a value shorter
\* than the type's width returns the 'N/A' sentinel.
C22_ShortValueIsNA ==
    ShortValue => (~stats.out.threw /\ stats.out.text = NotAvailable)

\* The same for the numeric types alone, whose branches test the length.
ShortNumberIsNA ==
    (ShortValue /\ stats.physicalType # "BOOLEAN") =>
        (~stats.out.threw /\ stats.out.text = NotAvailable)

\* The value of a decimal digit, 10 for any other character.
DigitValue(c) ==
    IF \E d \in 1..10 : DigitChars[d] = c
    THEN (CHOOSE d \in 1..10 : DigitChars[d] = c) - 1
    ELSE 10

AllDigits(str) == \A i \in 1..Len(str) : DigitValue(str[i]) < 10

\* Digits with no zero in front of them, a lone "0" excepted.
Canonical(str) == Len(str) >= 1 /\ AllDigits(str) /\ (Len(str) > 1 => str[1] # "0")

RECURSIVE NumberOf(_)
NumberOf(str) ==
    IF str = <<>> THEN 0
    ELSE 10 * NumberOf(SubSeq(str, 1, Len(str) - 1)) + DigitValue(str[Len(str)])

RECURSIVE Pow10(_)
Pow10(n) == IF n = 0 THEN 1 ELSE 10 * Pow10(n - 1)

Abs(n) == IF n < 0 THEN 0 - n ELSE n

\* body is |v| with the decimal point s digits from the right: at least one
\* digit before the point, no more zeros in front than that needs.
ScaledDigits(body, v, s) ==
    IF s = 0 THEN Canonical(body) /\ NumberOf(body) = Abs(v)
    ELSE /\ Len(body) >= s + 2
         /\ body[Len(body) - s] = "."
         /\ Canonical(SubSeq(body, 1, Len(body) - s - 1))
         /\ AllDigits(SubSeq(body, Len(body) - s + 1, Len(body)))
         /\ NumberOf(SubSeq(body, 1, Len(body) - s - 1)) * Pow10(s)
               + NumberOf(SubSeq(body, Len(body) - s + 1, Len(body))) = Abs(v)

\* text is v scaled by s, the sign in front of a negative v.
DecimalRendering(text, v, s) ==
    /\ text # <<>>
    /\ IF v < 0 THEN text[1] = "-" /\ ScaledDigits(Tail(text), v, s)
       ELSE ScaledDigits(text, v, s)

DecimalCalled == stats.pc = "done" /\ stats.op = "formatDecimal"

\* The scale formatStatValue passes on: details.scale || 0.
ScaleOf(logicalInfo) == IF logicalInfo.scale = None THEN 0 ELSE logicalInfo.scale[1]

\* C23: formatDecimal(v, s) returns v's digits unchanged when s is 0; for
\* s > 0 it pads the digits of |v| with zeros on the left to at least s + 1
\* digits, puts the decimal point s digits from the right and the sign back in
\* front: 12345 with scale 2 gives "123.45", -5 with scale 2 gives "-0.05".
\* The same holds of the decimals formatStatValue renders.
C23_FormatDecimal ==
    /\ (DecimalCalled /\ stats.scale >= 0) =>
          DecimalRendering(stats.out.text, stats.intValue, stats.scale)
    /\ (DecimalCalled /\ stats.intValue = 12345 /\ stats.scale = 2) =>
          stats.out.text = <<"1", "2", "3", ".", "4", "5">>
    /\ (DecimalCalled /\ stats.intValue = -5 /\ stats.scale = 2) =>
          stats.out.text = <<"-", "0", ".", "0", "5">>
    /\ (Formatted /\ stats.out.form = "decimal") =>
          DecimalRendering(stats.out.text, stats.out.int, ScaleOf(stats.logicalInfo))

\* -5 has been scaled by 2.
C23_Witness ==
    /\ DecimalCalled
    /\ stats.intValue = -5
    /\ stats.scale = 2
    /\ stats.out.text = <<"-", "0", ".", "0", "5">>

RECURSIVE Pow256(_)
Pow256(n) == IF n = 0 THEN 1 ELSE 256 * Pow256(n - 1)

\* The bytes as an unsigned big-endian integer.
RECURSIVE UnsignedBE(_)
UnsignedBE(bytes) ==
    IF bytes = <<>> THEN 0
    ELSE Head(bytes) * Pow256(Len(bytes) - 1) + UnsignedBE(Tail(bytes))

\* formatStatValue has rendered a non-empty byte array as a decimal.
DecimalBytes ==
    /\ Formatted
    /\ stats.value # None
    /\ stats.columnMeta
    /\ stats.physicalType \in {"BYTE_ARRAY", "FIXED_LEN_BYTE_ARRAY"}
    /\ stats.logicalInfo.type = "DECIMAL"
    /\ stats.value[1] # <<>>

\* C26: for a BYTE_ARRAY or FIXED_LEN_BYTE_ARRAY value with DECIMAL logical
\* type the integer passed to decimal scaling is the big-endian two's
\* complement reading of the bytes: the unsigned big-endian value when the top
\* bit of the first byte is clear, that value minus 256^length when it is set.
C26_TwosComplement ==
    DecimalBytes =>
        /\ stats.out.form = "decimal"
        /\ stats.out.int =
              IF stats.value[1][1] < 128 THEN UnsignedBE(stats.value[1])
              ELSE UnsignedBE(stats.value[1]) - Pow256(Len(stats.value[1]))

\* The bytes ff fe c7 have been read as -313.
C26_Witness ==
    /\ DecimalBytes
    /\ stats.value[1] = <<255, 254, 199>>
    /\ stats.out.int = -313

(***************************************************************************)
(* The order of the reads.                                                 *)
(***************************************************************************)
\* What the i-th read of a call is for.
ReadInOrder(i) ==
    IF i = 1 THEN "header" ELSE IF i = 2 THEN "trailer" ELSE IF i = 3 THEN "footer" ELSE "batch"

\* The reads issued when the call is suspended at pc or has returned.
IssuedAt ==
    /\ pc = "start" => reads = <<>>
    /\ pc = "awaitHeader" => Len(reads) = 1
    /\ pc = "awaitTrailer" => Len(reads) = 2
    /\ pc = "awaitFooter" => Len(reads) = 3
    /\ pc = "awaitBatch" => (batchIdx \in 1..Len(batches) /\ Len(reads) = 3 + batchIdx)
    /\ pc = "done" => Len(reads) = 3 + Len(batches)

ReadsInOrder ==
    /\ \A i \in 1..Len(reads) : reads[i].what = ReadInOrder(i)
    /\ IssuedAt
    /\ Len(reads) >= 1 =>
          /\ file.size >= 12
          /\ reads[1].start = 0 /\ reads[1].end = 4
    /\ Len(reads) >= 2 =>
          /\ HeadOK(file)
          /\ reads[2].start = file.size - 8 /\ reads[2].end = file.size
    /\ Len(reads) >= 3 =>
          /\ TailOK(file)
          /\ LenField(file) <= file.size - 8
          /\ reads[3].start = file.size - 8 - LenField(file)
          /\ reads[3].end = file.size - 8
    /\ Len(reads) >= 4 =>
          /\ file.footerOK
          /\ fileMetaData = file.meta
          /\ Len(reads) <= 3 + Len(batches)
    /\ \A i \in 4..Len(reads) :
          /\ reads[i].start = batches[i - 3].start
          /\ reads[i].end = batches[i - 3].end
          /\ \A j \in 4..(i - 1) : reads[j].start < reads[i].start

\* A step issues at most one read, behind the ones issued before, and leaves
\* the plan alone once an index read is out.
OneReadAStep ==
    /\ Len(reads') <= Len(reads) + 1
    /\ SubSeq(reads', 1, Len(reads)) = reads
    /\ Len(reads) >= 4 => batches' = batches
    /\ Len(reads') >= 4 => (batches' = batches \/ Len(reads) = 3)

\* C27: parseParquetFileStreaming issues its reads one at a time and in this
\* order: header magic [0, 4), trailer [fileSize - 8, fileSize), the footer
\* range, then the index batches in ascending start offset; a read is issued
\* only after every earlier check passed, the batch plan is fixed before the
\* first index read, and no index read is issued unless the footer decoded.
C27_ReadOrder == []ReadsInOrder /\ [][OneReadAStep]_vars

\* Two index batches have been read by a call that returned.
C27_Witness ==
    /\ pc = "done"
    /\ Len(reads) >= 5
    /\ reads[5].what = "batch"
    /\ reads[4].start < reads[5].start

(***************************************************************************)
(* The read cursor.                                                        *)
(***************************************************************************)
\* The cursor of reader r lies within its buffer.
CursorInside(r) == 0 <= r.offset /\ r.offset <= Len(r.buffer)

\* C28: after any sequence of TCompactProtocolReader operations, including
\* ones that raise, the read cursor satisfies 0 <= offset <= buffer.length and
\* never decreases; the bytes an operation consumes, those between the cursor
\* before it and the cursor after it, all lie below buffer.length.
C28_CursorInside ==
    /\ CursorInside(thrift.rd)
    /\ CursorInside(LastCall.before)
    /\ CursorInside(LastCall.out.r)
    /\ LastCall.before.offset <= LastCall.out.r.offset
    /\ LastCall.out.r.buffer = LastCall.before.buffer
    /\ \A i \in LastCall.before.offset..(LastCall.out.r.offset - 1) :
          i < Len(LastCall.before.buffer)
    /\ thrift.pc \in {"ready", "failed"} => thrift.rd = LastCall.out.r \/ LastCall.op = "none"

\* An operation has raised at the end of the buffer after consuming bytes.
C28_Witness ==
    /\ thrift.pc = "failed"
    /\ LastCall.out.err
    /\ LastCall.before.offset < LastCall.out.r.offset
    /\ LastCall.out.r.offset = Len(LastCall.out.r.buffer)

(***************************************************************************)
(* The two entry points on the same bytes.                                 *)
(***************************************************************************)
\* Both entry points have returned for the file.
BothReturned == pc = "done" /\ legacy.pc = "done"

\* C29: for the same file bytes parseParquetFile and parseParquetFileStreaming
\* return the same fileSize, footerLength, footerStart and the same
\* pageIndexes: every slot is null in one exactly when it is null in the
\* other, including slots whose index decode failed.
C29_EntryPointsAgree ==
    BothReturned =>
        /\ legacy.fileSize = StreamResult.fileSize
        /\ legacy.footerLength = StreamResult.footerLength
        /\ legacy.footerStart = StreamResult.footerStart
        /\ \A sl \in SlotsOf(file.meta) :
              (SlotValue(legacy.pageIndexes, sl[1], sl[2], sl[3]) = NullSlot)
                 <=> (SlotValue(StreamResult.pageIndexes, sl[1], sl[2], sl[3]) = NullSlot)

\* The same for the files whose index ranges are all absent or well-formed.
EntryPointsAgreeWhenDecodable ==
    (BothReturned /\ file.defect.kind \in {"none", "absent", "zerooff", "zerolen"}) =>
        /\ legacy.fileSize = StreamResult.fileSize
        /\ legacy.footerLength = StreamResult.footerLength
        /\ legacy.footerStart = StreamResult.footerStart
        /\ legacy.pageIndexes = StreamResult.pageIndexes

(***************************************************************************)
(* skip against the encoding.                                              *)
(***************************************************************************)
\* The offset behind the varint at off, -1 when the buffer ends inside it,
\* and the number it spells.
VarintBehind(b, off) == IF VarintEnd(b, off) = 0 THEN -1 ELSE VarintEnd(b, off)

VarintAt(b, off) == VarintSum(b, off, VarintEnd(b, off))

\* The offset behind a field header at off: a zero delta has the field id
\* follow as a varint.
HeaderBehind(b, off) ==
    IF b[off + 1] \div 16 = 0 THEN VarintBehind(b, off + 1) ELSE off + 1

\* The offset behind the well-formed encoded value of the type that starts at
\* offset off of b, by the grammar of the compact protocol; -1 when none does.
RECURSIVE ValueEnd(_, _, _)
RECURSIVE FieldsEnd(_, _)
RECURSIVE ElemsEnd(_, _, _, _)
RECURSIVE PairsEnd(_, _, _, _, _)
ValueEnd(b, off, type) ==
    IF off < 0 \/ off >= Len(b) THEN -1
    ELSE IF type \in {1, 2, 3} THEN off + 1
    ELSE IF type \in {4, 5, 6} THEN VarintBehind(b, off)
    ELSE IF type = 7 THEN IF off + 8 <= Len(b) THEN off + 8 ELSE -1
    ELSE IF type = 8
         THEN IF VarintBehind(b, off) < 0 THEN -1
              ELSE IF VarintBehind(b, off) + VarintAt(b, off) <= Len(b)
                   THEN VarintBehind(b, off) + VarintAt(b, off)
              ELSE -1
    ELSE IF type \in {9, 10}
         THEN IF b[off + 1] \div 16 = 15
              THEN IF VarintBehind(b, off + 1) < 0 THEN -1
                   ELSE ElemsEnd(b, VarintBehind(b, off + 1), b[off + 1] % 16,
                                 VarintAt(b, off + 1))
              ELSE ElemsEnd(b, off + 1, b[off + 1] % 16, b[off + 1] \div 16)
    ELSE IF type = 11
         THEN IF VarintBehind(b, off) < 0 THEN -1
              ELSE IF VarintAt(b, off) = 0 THEN VarintBehind(b, off)
              ELSE IF VarintBehind(b, off) >= Len(b) THEN -1
              ELSE PairsEnd(b, VarintBehind(b, off) + 1,
                            b[VarintBehind(b, off) + 1] \div 16,
                            b[VarintBehind(b, off) + 1] % 16, VarintAt(b, off))
    ELSE IF type = 12 THEN FieldsEnd(b, off)
    ELSE -1

FieldsEnd(b, off) ==
    IF off < 0 \/ off >= Len(b) THEN -1
    ELSE IF b[off + 1] = 0 THEN off + 1
    ELSE IF b[off + 1] % 16 \notin 1..12 THEN -1
    ELSE IF b[off + 1] % 16 \in {1, 2} THEN FieldsEnd(b, HeaderBehind(b, off))
    ELSE FieldsEnd(b, ValueEnd(b, HeaderBehind(b, off), b[off + 1] % 16))

ElemsEnd(b, off, etype, n) ==
    IF off < 0 \/ etype \notin 1..12 \/ n > Len(b) - off THEN -1
    ELSE IF n = 0 THEN off
    ELSE ElemsEnd(b, ValueEnd(b, off, etype), etype, n - 1)

PairsEnd(b, off, ktype, vtype, n) ==
    IF off < 0 \/ ktype \notin 1..12 \/ vtype \notin 1..12 \/ n > Len(b) - off THEN -1
    ELSE IF n = 0 THEN off
    ELSE PairsEnd(b, ValueEnd(b, ValueEnd(b, off, ktype), vtype), ktype, vtype, n - 1)

\* The typed read of a scalar of the type.
TypedRead(r, type) ==
    CASE type \in {1, 2} -> readBool(r)
      [] type = 3 -> readByte(r)
      [] type = 4 -> readI16(r)
      [] type = 5 -> readI32(r)
      [] type = 6 -> readI64(r)
      [] type = 7 -> readDouble(r)
      [] type = 8 -> readBinary(r)

\* skip(type) has been called with no boolean pending on a reader that stands
\* at a well-formed value of the type.
SkippedWellFormed ==
    /\ LastCall.op = "skip"
    /\ LastCall.arg \in 1..12
    /\ LastCall.before.boolValue = "null"
    /\ ValueEnd(LastCall.before.buffer, LastCall.before.offset, LastCall.arg) >= 0

\* C25: for every type tag 1..12 and every well-formed encoded value of that
\* type, nested to any depth, skip(type) started with an empty pending-boolean
\* slot leaves the cursor at the first byte behind the value, the offset the
\* typed read reaches, leaves the field-id stack as it was and the
\* pending-boolean slot empty.
C25_SkipWellFormed ==
    SkippedWellFormed =>
        /\ ~LastCall.out.err
        /\ LastCall.out.r.offset =
              ValueEnd(LastCall.before.buffer, LastCall.before.offset, LastCall.arg)
        /\ LastCall.out.r.lastFieldId = LastCall.before.lastFieldId
        /\ LastCall.out.r.boolValue = "null"
        /\ LastCall.arg \in 1..8 =>
              /\ ~TypedRead(LastCall.before, LastCall.arg).err
              /\ TypedRead(LastCall.before, LastCall.arg).r.offset = LastCall.out.r.offset

\* A struct holding a boolean and a struct with a long-form field has been
\* skipped from its first byte to its last.
C25_Witness ==
    /\ SkippedWellFormed
    /\ LastCall.arg = 12
    /\ LastCall.before.buffer = <<17, 28, 5, 4, 7, 0, 0>>
    /\ LastCall.before.offset = 0
    /\ LastCall.out.r.offset = 7

(***************************************************************************)
(* The App component.                                                      *)
(***************************************************************************)
\* C30: in the App component, for every sequence of the handlers reachable
\* from the rendered UI, at most one parse is in flight at a time,
\* parquetData and error are never both non-null, and when a load finishes
\* loading is false and exactly one of parquetData and error is non-null.
C30_OneLoadAtATime ==
    /\ Cardinality(app.tasks) <= 1
    /\ app.loading <=> (app.tasks # {})
    /\ ~(app.parquetData # "null" /\ app.error # "null")
    /\ app.event = "finish" =>
          /\ ~app.loading
          /\ (app.parquetData # "null") # (app.error # "null")

\* A second load has finished, with an error, after the first was reset.
C30_Witness ==
    /\ app.event = "finish"
    /\ app.loads = 2
    /\ app.error = "Failed to parse Parquet file"
    /\ app.parquetData = "null"
    /\ ~app.loading

(***************************************************************************)
(* Two calls interleaved.                                                  *)
(***************************************************************************)
ReadErrors == {"read header", "read trailer", "read footer", "read batch"}

\* What a call that has ended hands to its caller: the error it threw or the
\* result it returned.
OutcomeOf(c) ==
    [pc |-> c.pc, error |-> c.error, footerLength |-> c.footerLength,
     footerStart |-> c.footerStart, indexes |-> c.indexes]

Failing(msg, len, start) ==
    [pc |-> "failed", error |-> msg, footerLength |-> len, footerStart |-> start,
     indexes |-> <<>>]

\* The outcome of a call on f that runs alone and whose reads all return.
AloneOutcome(f) ==
    IF f.size < 12 THEN Failing("too small", -1, -1)
    ELSE IF ~HeadOK(f) THEN Failing("header magic", -1, -1)
    ELSE IF ~TailOK(f) THEN Failing("footer magic", -1, -1)
    ELSE IF LenField(f) > f.size - 8 THEN Failing("footer length", LenField(f), -1)
    ELSE IF ~f.footerOK
         THEN Failing("footer decode", LenField(f), f.size - 8 - LenField(f))
    ELSE [pc |-> "done", error |-> "", footerLength |-> LenField(f),
          footerStart |-> f.size - 8 - LenField(f), indexes |-> StreamingIndexesOf(f)]

\* The outcome of a call on f that runs alone and whose n-th read throws.
AloneFailing(f, n) ==
    IF n = 1 THEN Failing("read header", -1, -1)
    ELSE IF n = 2 THEN Failing("read trailer", -1, -1)
    ELSE IF n = 3 THEN Failing("read footer", LenField(f), f.size - 8 - LenField(f))
    ELSE [pc |-> "failed", error |-> "read batch", footerLength |-> LenField(f),
          footerStart |-> f.size - 8 - LenField(f),
          indexes |-> RunBatches(f, [indexes |-> InitIndexes(f.meta), decodes |-> <<>>],
                                 SubSeq(PlanBatches(f.meta), 1, n - 4)).indexes]

\* The call with locals c has ended as it ends alone on the same file with
\* the same reads failing.
AsAlone(c) ==
    c.pc \in {"done", "failed"} =>
        OutcomeOf(c) = IF c.error \in ReadErrors THEN AloneFailing(c.file, Len(c.reads))
                       ELSE AloneOutcome(c.file)

\* C24: concurrent decodes do not interfere: when two parseParquetFileStreaming
\* calls on different files are interleaved in any way at their byte-range
\* read suspension points, each returns the result it returns when run alone.
C24_NoInterference ==
    peer.pc # "idle" => (AsAlone(Suspended) /\ AsAlone(peer))

\* A call that runs alone ends as AloneOutcome and AloneFailing say.
AloneAsReferenced == peer.pc = "idle" => AsAlone(Suspended)

\* Both calls have returned their indexes after taking turns: each had issued
\* reads when the other one ran.
C24_Witness ==
    /\ peer.pc = "done"
    /\ pc = "done"
    /\ Len(reads) >= 5
    /\ Len(peer.reads) >= 4
    /\ indexes # peer.indexes

====
